---- MODULE Spec2Model ----
(***************************************************************************)
(* Model of the multi-armed-bandit recommendation core of                  *)
(* src/recommend/app/models/bandit.py: MultiArmedBandit with its two       *)
(* policies (EpsilonGreedyBandit, UCBBandit), ColdStartRecommender and     *)
(* BanditManager.                                                          *)
(*                                                                         *)
(* Conventions.                                                            *)
(*  - Arm indices are 1-based here (0-based in the source).                *)
(*  - Rewards are integers (one unit = reward 1.0).                        *)
(*  - Epsilon is a percentage: 10 stands for 0.1.                          *)
(*  - A product is represented by its id; a list of Product objects is a   *)
(*    sequence of ids.                                                     *)
(*  - A numpy random draw is a nondeterministic choice over its support.   *)
(*  - An operation that can end in several ways (random draws, an          *)
(*    exception) is an operator giving the SET of its outcomes; the action *)
(*    picks one of them.                                                   *)
(***************************************************************************)
EXTENDS Integers, Sequences, FiniteSets, TLC

VARIABLES
    bandit,                       \* a stand-alone MultiArmedBandit object
    bandits,                      \* BanditManager.bandits: context -> bandit
    cold_start_recommender,       \* BanditManager.cold_start_recommender
    default_bandit_type,          \* BanditManager.default_bandit_type
    total_recommendations_served, \* BanditManager.total_recommendations_served
    user,                         \* the requesting user, as the endpoints see them
    loop,                         \* the event loop of main.py and its request handlers
    recommendation_system,        \* main2.py's SimplifiedRecommendationSystem
    last                          \* the last call made: its arguments and result

vars == <<bandit, bandits, cold_start_recommender, default_bandit_type,
          total_recommendations_served, user, loop, recommendation_system, last>>

managerVars == <<bandits, cold_start_recommender, default_bandit_type,
                 total_recommendations_served, user, loop,
                   recommendation_system>>

----------------------------------------------------------------------------
(* Bounds of the model *)

\* the interactions the simplified system holds when feedback is recorded
MaxFeedback == 1

\* largest total_pulls a stand-alone bandit is driven to
MaxPulls == 2

\* longest interaction list handed to update_rewards
MaxInteractions == 2

\* largest n_products asked for
MaxN == 2

\* largest number of get_recommendations calls made to a manager
MaxServed == 1

(* Program constants *)

\* EpsilonGreedyBandit.__init__(products, epsilon=0.1), in percent
DefaultEpsilonPct == 10

\* UCBBandit.__init__(products, confidence_level=2.0)
DefaultConfidenceLevel == 2

(* Input universes *)

ProductIds == {"A", "B", "C"}

\* the product lists a stand-alone bandit is built from; the second one
\* names product B twice and leaves C outside the arm set
InitProductLists == {<<"A", "B", "C">>, <<"B", "A", "B">>}

Rewards == {-1, 1}

\* the exclusion lists handed to a selection: nothing, one product, two
\* products that are not neighbours in the arm order, everything
ExcludeSets == {{}, {"B"}, {"A", "C"}, ProductIds}

\* epsilon = 0, 0.1 and 1
Epsilons == {0, DefaultEpsilonPct, 100}

BanditTypes == {"epsilon_greedy", "ucb"}

\* the epsilon and confidence_level arguments handed to the constructors,
\* valid and invalid
ConstructorEpsilons == {-10, 0, DefaultEpsilonPct, 100, 110}

ConstructorConfidenceLevels == {-1, 0, 1, DefaultConfidenceLevel}

\* UserInteraction, reduced to the fields the bandit reads
Interactions == [productId : ProductIds, reward : Rewards]

RECURSIVE SeqsUpTo(_, _)
SeqsUpTo(S, n) ==
    IF n = 0 THEN {<<>>}
    ELSE LET shorter == SeqsUpTo(S, n - 1)
         IN shorter \cup {Append(s, x) : s \in {t \in shorter : Len(t) = n - 1}, x \in S}

InteractionLists == SeqsUpTo(Interactions, MaxInteractions)

----------------------------------------------------------------------------
(* Sequence helpers *)

Range(s) == {s[i] : i \in 1..Len(s)}

RECURSIVE SumSeq(_)
SumSeq(s) == IF s = <<>> THEN 0 ELSE s[1] + SumSeq(Tail(s))

Zeros(n) == [i \in 1..n |-> 0]

\* a pop that removes nothing
RemoveAt_mutant(s, i) == s

\* list.pop(i)
RemoveAt(s, i) == [j \in 1..(Len(s) - 1) |-> IF j < i THEN s[j] ELSE s[j + 1]]

\* the keys of {p.id: p for p in products}: first occurrences, in order
RECURSIVE DictKeys(_)
DictKeys(products) ==
    IF products = <<>> THEN <<>>
    ELSE LET front == DictKeys(SubSeq(products, 1, Len(products) - 1))
             p == products[Len(products)]
         IN IF p \in Range(front) THEN front ELSE Append(front, p)

\* every ordering of the elements of S, as a sequence
Orderings(S) ==
    {s \in [1..Cardinality(S) -> S] : \A i, j \in 1..Cardinality(S) : s[i] = s[j] => i = j}

Min(a, b) == IF a <= b THEN a ELSE b

Max(a, b) == IF a >= b THEN a ELSE b

----------------------------------------------------------------------------
(* MultiArmedBandit *)

\* MultiArmedBandit.__init__ with the subclass's parameter; counts and
\* rewards are numpy arrays (is_ndarray)
NewBandit(type, products, epsilon, confidence_level) ==
    LET product_ids == DictKeys(products)
    IN [type |-> type,
        product_ids |-> product_ids,
        counts |-> Zeros(Len(product_ids)),
        rewards |-> Zeros(Len(product_ids)),
        total_pulls |-> 0,
        epsilon |-> epsilon,
        confidence_level |-> confidence_level,
        is_ndarray |-> TRUE]

n_arms(b) == Len(b.product_ids)

\* the outcomes of a constructor call: the new object, or ValueError
Constructed(b) == [raised |-> FALSE, bandit |-> b]

NotConstructed == [raised |-> TRUE, bandit |-> << >>]

EpsilonGreedyBandit_mutant(products, epsilon) == IF DictKeys(products) = <<>> THEN NotConstructed ELSE Constructed(NewBandit("epsilon_greedy", products, epsilon, DefaultConfidenceLevel))

\* EpsilonGreedyBandit(products, epsilon): MultiArmedBandit.__init__ raises
\* for n_arms == 0, then the subclass for an epsilon outside [0, 1]
EpsilonGreedyBandit(products, epsilon) ==
    IF DictKeys(products) = <<>> THEN NotConstructed
    ELSE IF ~(0 <= epsilon /\ epsilon <= 100) THEN NotConstructed
    ELSE Constructed(NewBandit("epsilon_greedy", products, epsilon,
                               DefaultConfidenceLevel))

\* UCBBandit(products, confidence_level): MultiArmedBandit.__init__ raises
\* for n_arms == 0, then the subclass for confidence_level <= 0
UCBBandit(products, confidence_level) ==
    IF DictKeys(products) = <<>> THEN NotConstructed
    ELSE IF confidence_level <= 0 THEN NotConstructed
    ELSE Constructed(NewBandit("ucb", products, DefaultEpsilonPct, confidence_level))

\* pid in self.product_to_arm
InProductToArm(b, pid) == pid \in Range(b.product_ids)

\* self.product_to_arm[pid]
product_to_arm(b, pid) == CHOOSE i \in 1..n_arms(b) : b.product_ids[i] = pid

\* ProductScorer.score_product
score_product(product_id, interactions) ==
    LET product_interactions == SelectSeq(interactions, LAMBDA i : i.productId = product_id)
    IN IF product_interactions # <<>>
       THEN SumSeq([k \in 1..Len(product_interactions) |-> product_interactions[k].reward])
       ELSE 0

\* the dict product_interactions that update_rewards builds: the arms named
\* by some interaction, each with the list of its interactions
GroupByArm(b, interactions) ==
    [pid \in {p \in Range(b.product_ids) :
                 \E k \in 1..Len(interactions) : interactions[k].productId = p}
       |-> SelectSeq(interactions, LAMBDA i : i.productId = pid)]

update_rewards_mutant(b, interactions) ==
    LET product_interactions == GroupByArm(b, interactions)
        counts == [i \in 1..n_arms(b) |->
                     IF b.product_ids[i] \in DOMAIN product_interactions
                     THEN b.counts[i] + Len(product_interactions[b.product_ids[i]])
                     ELSE b.counts[i]]
    IN [b EXCEPT
          !.rewards = [i \in 1..n_arms(b) |->
                         IF b.product_ids[i] \in DOMAIN product_interactions
                         THEN score_product(b.product_ids[i],
                                            product_interactions[b.product_ids[i]])
                         ELSE 0],
          !.counts = counts,
          !.total_pulls = SumSeq(counts)]

\* MultiArmedBandit.update_rewards
update_rewards(b, interactions) ==
    LET product_interactions == GroupByArm(b, interactions)
        counts == [i \in 1..n_arms(b) |->
                     IF b.product_ids[i] \in DOMAIN product_interactions
                     THEN Len(product_interactions[b.product_ids[i]])
                     ELSE 0]
    IN [b EXCEPT
          !.rewards = [i \in 1..n_arms(b) |->
                         IF b.product_ids[i] \in DOMAIN product_interactions
                         THEN score_product(b.product_ids[i],
                                            product_interactions[b.product_ids[i]])
                         ELSE 0],
          !.counts = counts,
          !.total_pulls = SumSeq(counts)]

update_mutant_index(b, product_id, reward) ==
    IF ~InProductToArm(b, product_id) THEN b
    ELSE LET arm_idx == product_to_arm(b, product_id)
         IN [b EXCEPT !.counts[arm_idx] = @ + 1,
                      !.rewards[1] = @ + reward,
                      !.total_pulls = @ + 1]

update_mutant_clear(b, product_id, reward) ==
    IF ~InProductToArm(b, product_id) THEN [b EXCEPT !.counts = Zeros(n_arms(b))]
    ELSE LET arm_idx == product_to_arm(b, product_id)
         IN [b EXCEPT !.counts[arm_idx] = @ + 1,
                      !.rewards[arm_idx] = @ + reward,
                      !.total_pulls = @ + 1]

update_mutant(b, product_id, reward) ==
    IF ~InProductToArm(b, product_id) THEN [b EXCEPT !.total_pulls = @ + 1]
    ELSE LET arm_idx == product_to_arm(b, product_id)
         IN [b EXCEPT !.counts[arm_idx] = @ + 1,
                      !.rewards[arm_idx] = @ + reward,
                      !.total_pulls = @ + 1]

\* MultiArmedBandit.update
update(b, product_id, reward) ==
    IF ~InProductToArm(b, product_id) THEN b
    ELSE LET arm_idx == product_to_arm(b, product_id)
         IN [b EXCEPT !.counts[arm_idx] = @ + 1,
                      !.rewards[arm_idx] = @ + reward,
                      !.total_pulls = @ + 1]

reset_mutant(b) == [b EXCEPT !.counts = Zeros(n_arms(b)), !.rewards = Zeros(n_arms(b))]

\* MultiArmedBandit.reset
reset(b) ==
    [b EXCEPT !.counts = Zeros(n_arms(b)),
              !.rewards = Zeros(n_arms(b)),
              !.total_pulls = 0]

----------------------------------------------------------------------------
(* select_arm *)

\* an outcome of select_arm: an arm index (0 for the source's -1), or an
\* exception
Arm(i) == [raised |-> FALSE, arm |-> i]

ArmRaised == [raised |-> TRUE, arm |-> 0]

\* rewards[i] / counts[i] with 0 where counts[i] = 0, as the fraction num/den
AvgNum(b, i) == IF b.counts[i] = 0 THEN 0 ELSE b.rewards[i]

AvgDen(b, i) == IF b.counts[i] = 0 THEN 1 ELSE b.counts[i]

\* avg_rewards[i] >= avg_rewards[j]
AvgGeq(b, i, j) == AvgNum(b, i) * AvgDen(b, j) >= AvgNum(b, j) * AvgDen(b, i)

ArgmaxAvg_mutant(b) == 1

\* np.argmax(avg_rewards): the first index holding the maximum
ArgmaxAvg(b) ==
    CHOOSE i \in 1..n_arms(b) :
        /\ \A j \in 1..n_arms(b) : AvgGeq(b, i, j)
        /\ \A j \in 1..(i - 1) : ~AvgGeq(b, j, i)

\* stats.sort(key=priority_score, reverse=True) over the arms of a list: a
\* stable sort, arms of equal average reward keep their order. The average
\* reward of an arm without pulls is 0.0.
RECURSIVE SortByAverage(_, _)
SortByAverage(b, arms) ==
    IF arms = <<>> THEN <<>>
    ELSE LET best == CHOOSE k \in 1..Len(arms) :
                        /\ \A j \in 1..Len(arms) : AvgGeq(b, arms[k], arms[j])
                        /\ \A j \in 1..(k - 1) : ~AvgGeq(b, arms[j], arms[k])
         IN <<arms[best]>> \o SortByAverage(b, RemoveAt(arms, best))

\* MultiArmedBandit.get_product_stats: the product ids of the returned
\* list, in its order
get_product_stats(b) ==
    LET sorted == SortByAverage(b, [i \in 1..n_arms(b) |-> i])
    IN [k \in 1..Len(sorted) |-> b.product_ids[sorted[k]]]

\* MultiArmedBandit._calculate_priority of test.py, compared: the priority
\* of arm i is at least that of arm j (inf for an arm without pulls)
PriorityGeq(b, i, j) ==
    \/ b.counts[i] = 0
    \/ (b.counts[j] # 0 /\ AvgGeq(b, i, j))

\* stats.sort(key=recommendation_priority, reverse=True) of test.py
RECURSIVE SortByPriority(_, _)
SortByPriority(b, arms) ==
    IF arms = <<>> THEN <<>>
    ELSE LET best == CHOOSE k \in 1..Len(arms) :
                        /\ \A j \in 1..Len(arms) : PriorityGeq(b, arms[k], arms[j])
                        /\ \A j \in 1..(k - 1) : ~PriorityGeq(b, arms[j], arms[k])
         IN <<arms[best]>> \o SortByPriority(b, RemoveAt(arms, best))

\* MultiArmedBandit.get_product_stats of test.py
test_get_product_stats(b) ==
    LET sorted == SortByPriority(b, [i \in 1..n_arms(b) |-> i])
    IN [k \in 1..Len(sorted) |-> b.product_ids[sorted[k]]]

\* EpsilonGreedyBandit.select_arm.
\* np.random.random() lies in [0, 1): the explore branch can be taken iff
\* epsilon > 0, the exploit branch iff epsilon < 1.
\* In the exploit branch the condition np.any(self.counts > 0) is evaluated
\* first: when counts is a Python list (the temporary bandit of
\* select_products) list > int raises TypeError.
EpsilonGreedySelectArm(b) ==
    (IF b.epsilon > 0 THEN {Arm(i) : i \in 1..n_arms(b)} ELSE {})
    \cup
    (IF b.epsilon < 100
     THEN IF ~b.is_ndarray THEN {ArmRaised}
          ELSE IF \E i \in 1..n_arms(b) : b.counts[i] > 0
               THEN {Arm(ArgmaxAvg(b))}
               ELSE {Arm(i) : i \in 1..n_arms(b)}
     ELSE {})

\* 100 * ln(t), t = 1..12
LnCenti(t) == <<0, 69, 110, 139, 161, 179, 195, 208, 220, 230, 240, 248>>[t]

\* floor(sqrt(x))
ISqrt(x) == CHOOSE r \in 0..250 : r * r <= x /\ x < (r + 1) * (r + 1)

\* 100 * ucb_values[i] for an arm with counts[i] > 0, in fixed point:
\* avg_reward + sqrt(confidence_level * log(max(1, total_pulls)) / counts[i])
UcbCenti(b, i) ==
    ((100 * b.rewards[i]) \div b.counts[i])
    + ISqrt((b.confidence_level * LnCenti(Max(1, b.total_pulls)) * 100) \div b.counts[i])

\* np.argmax(ucb_values) when every count is positive. The fixed-point
\* values are within 3/100 of the floating-point ones, so every arm whose
\* value is within 6/100 of the largest is taken as a possible argmax.
ArgmaxUcb(b) ==
    {i \in 1..n_arms(b) : \A j \in 1..n_arms(b) : UcbCenti(b, i) + 6 >= UcbCenti(b, j)}

\* The UCB formula evaluated on arms some of which have count 0 (reached
\* only with list-valued counts): numpy scalar division by zero gives nan,
\* ucb_values[i] is nan for those arms, and np.argmax returns the first nan.
ArgmaxUcbWithNan(b) ==
    IF \E i \in 1..n_arms(b) : b.counts[i] = 0
    THEN {CHOOSE i \in 1..n_arms(b) :
              b.counts[i] = 0 /\ \A j \in 1..(i - 1) : b.counts[j] # 0}
    ELSE ArgmaxUcb(b)

\* UCBBandit.select_arm.
\* With numpy arrays, np.where(self.counts == 0)[0] lists the unpulled arms
\* and np.random.choice draws one of them.
\* With list-valued counts (the temporary bandit of select_products),
\* self.counts == 0 is the Python value False and np.where(False) is a
\* nonzero() of a 0-d array: numpy >= 2.1 raises ValueError, older numpy
\* returns no index, so that the formula is evaluated on every arm. The
\* installed numpy decides; both outcomes are kept.
UCBSelectArm(b) ==
    IF n_arms(b) = 0 THEN {Arm(0)}
    ELSE IF b.is_ndarray
         THEN IF \E i \in 1..n_arms(b) : b.counts[i] = 0
              THEN {Arm(i) : i \in {j \in 1..n_arms(b) : b.counts[j] = 0}}
              ELSE {Arm(i) : i \in ArgmaxUcb(b)}
         ELSE {ArmRaised} \cup {Arm(i) : i \in ArgmaxUcbWithNan(b)}

\* UCBBandit.select_arm of test.py (counts is a numpy array): the first
\* unpulled arm, else the argmax of the UCB values
test_UCBSelectArm(b) ==
    IF \E i \in 1..n_arms(b) : b.counts[i] = 0
    THEN {Arm(CHOOSE i \in 1..n_arms(b) :
                 b.counts[i] = 0 /\ \A j \in 1..(i - 1) : b.counts[j] # 0)}
    ELSE {Arm(i) : i \in ArgmaxUcb(b)}

\* select_arm, dispatched on the class
select_arm(b) ==
    IF b.type = "epsilon_greedy" THEN EpsilonGreedySelectArm(b) ELSE UCBSelectArm(b)

----------------------------------------------------------------------------
(* select_products *)

\* an outcome of a call returning a product list
Returned(ids) == [raised |-> FALSE, ids |-> ids]

ListRaised == [raised |-> TRUE, ids |-> <<>>]

\* the temporary bandit of one selection round: type(self)(products=...)
\* takes the class's DEFAULT epsilon / confidence_level, and its counts and
\* rewards are Python lists
TempBandit(b, available_arms_indices) ==
    [type |-> b.type,
     product_ids |-> [j \in 1..Len(available_arms_indices) |->
                        b.product_ids[available_arms_indices[j]]],
     counts |-> [j \in 1..Len(available_arms_indices) |->
                   b.counts[available_arms_indices[j]]],
     rewards |-> [j \in 1..Len(available_arms_indices) |->
                    b.rewards[available_arms_indices[j]]],
     total_pulls |-> b.total_pulls,
     epsilon |-> DefaultEpsilonPct,
     confidence_level |-> DefaultConfidenceLevel,
     is_ndarray |-> FALSE]

\* the arms whose product is not excluded, in arm order
RECURSIVE AvailableArms(_, _, _)
AvailableArms(b, exclude, i) ==
    IF i > n_arms(b) THEN <<>>
    ELSE IF b.product_ids[i] \in exclude THEN AvailableArms(b, exclude, i + 1)
         ELSE <<i>> \o AvailableArms(b, exclude, i + 1)

SelectionRound_mutant(b, available_arms_indices) ==
    [self |-> TempBandit(b, available_arms_indices),
     temp_bandit |-> TempBandit(b, available_arms_indices)]

\* the two objects after the assignments of one selection round: counts,
\* rewards and total_pulls are assigned on temp_bandit, self is only read
SelectionRound(b, available_arms_indices) ==
    [self |-> b, temp_bandit |-> TempBandit(b, available_arms_indices)]

\* for _ in range(num_to_select): ...
RECURSIVE SelectionLoop(_, _, _, _)
SelectionLoop(b, available_arms_indices, rounds, recommended_product_ids) ==
    IF rounds = 0 \/ available_arms_indices = <<>>
    THEN {Returned(recommended_product_ids)}
    ELSE UNION {
           IF o.raised THEN {ListRaised}
           ELSE IF o.arm = 0 THEN {Returned(recommended_product_ids)}
           ELSE SelectionLoop(b,
                              RemoveAt(available_arms_indices, o.arm),
                              rounds - 1,
                              Append(recommended_product_ids,
                                     b.product_ids[available_arms_indices[o.arm]]))
           : o \in select_arm(TempBandit(b, available_arms_indices))}

\* num_to_select = len(available_arms_indices): n_products is not read
num_to_select(n_products, available_arms_indices) == Len(available_arms_indices)

\* MultiArmedBandit.select_products
select_products(b, n_products, exclude_products) ==
    LET available_arms_indices == AvailableArms(b, exclude_products, 1)
    IN IF available_arms_indices = <<>> THEN {Returned(<<>>)}
       ELSE SelectionLoop(b, available_arms_indices,
                          num_to_select(n_products, available_arms_indices), <<>>)

\* self as select_products leaves it, whether the call returns or raises:
\* available_arms_indices, current_exclude_products and
\* recommended_product_ids are locals, and a round is entered only while an
\* arm is available
AfterSelectProducts(b, exclude_products) ==
    LET available_arms_indices == AvailableArms(b, exclude_products, 1)
    IN IF available_arms_indices = <<>> THEN b
       ELSE SelectionRound(b, available_arms_indices).self

----------------------------------------------------------------------------
(* select_products of src/test.py, an earlier copy of the bandit classes   *)
(* with the same fields; it selects among the original arms without a      *)
(* temporary bandit.                                                       *)

\* 100 * (avg_reward + sqrt(c * log(max(1, total_pulls)) / counts[arm])) for
\* an arm with counts[arm] > 0
ScoreCenti(b, arm, c) ==
    ((100 * b.rewards[arm]) \div b.counts[arm])
    + ISqrt((c * LnCenti(Max(1, b.total_pulls)) * 100) \div b.counts[arm])

\* np.argmax over the scores of available_arms, as an index into
\* available_arms: an arm with count 0 scores inf and the first such arm
\* wins; otherwise every arm within 6/100 of the largest score is kept
ArgmaxAvailable(b, available_arms, c) ==
    IF \E j \in 1..Len(available_arms) : b.counts[available_arms[j]] = 0
    THEN {CHOOSE j \in 1..Len(available_arms) :
             /\ b.counts[available_arms[j]] = 0
             /\ \A k \in 1..(j - 1) : b.counts[available_arms[k]] # 0}
    ELSE {j \in 1..Len(available_arms) :
             \A k \in 1..Len(available_arms) :
                ScoreCenti(b, available_arms[j], c) + 6
                   >= ScoreCenti(b, available_arms[k], c)}

\* MultiArmedBandit._select_best_available_arm: exploration bonus sqrt(2 * ...)
_select_best_available_arm(b, available_arms) == ArgmaxAvailable(b, available_arms, 2)

\* EpsilonGreedyBandit / UCBBandit._select_from_available_arms
_select_from_available_arms(b, available_arms) ==
    IF b.type = "epsilon_greedy"
    THEN (IF b.epsilon > 0 THEN 1..Len(available_arms) ELSE {})
         \cup (IF b.epsilon < 100 THEN _select_best_available_arm(b, available_arms)
               ELSE {})
    ELSE ArgmaxAvailable(b, available_arms, b.confidence_level)

\* for _ in range(n_products): ... of test.py
RECURSIVE TestSelectionLoop(_, _, _, _, _)
TestSelectionLoop(b, available_products, temp_excluded, rounds, recommended_product_ids) ==
    LET available_arms ==
            LET kept == SelectSeq(available_products, LAMBDA pid : pid \notin temp_excluded)
            IN [j \in 1..Len(kept) |-> product_to_arm(b, kept[j])]
    IN IF rounds = 0 \/ available_arms = <<>>
       THEN {recommended_product_ids}
       ELSE UNION {
              LET selected_product_id == b.product_ids[available_arms[selected_temp_arm]]
              IN TestSelectionLoop(b, available_products,
                                   temp_excluded \cup {selected_product_id},
                                   rounds - 1,
                                   Append(recommended_product_ids, selected_product_id))
              : selected_temp_arm \in _select_from_available_arms(b, available_arms)}

\* MultiArmedBandit.select_products of test.py
test_select_products(b, n_products, exclude_products) ==
    LET not_excluded == SelectSeq(b.product_ids, LAMBDA pid : pid \notin exclude_products)
        available_products == IF not_excluded = <<>> THEN b.product_ids ELSE not_excluded
    IN TestSelectionLoop(b, available_products, exclude_products,
                         Min(n_products, Len(available_products)), <<>>)

----------------------------------------------------------------------------
(* The product table: the fields of Product and ProductFeatures that the   *)
(* recommenders read. Ratings are in tenths, price competitiveness and     *)
(* trend momentum in hundredths. Product C carries no features. Products  *)
(* D and E, known to the cold-start recommender only, carry values outside *)
(* the documented ranges and no reviews.                                   *)

HasFeatures(pid) == pid \in {"A", "B", "D", "E"}

Features(pid) ==
    IF pid = "A"
    THEN [avg_rating |-> 45, review_count |-> 3, price_competitiveness |-> 80,
          market_position |-> "Premium", days_since_launch |-> 10,
          trend_momentum |-> 50, lifecycle_stage |-> "New"]
    ELSE IF pid = "D"
    THEN [avg_rating |-> 50, review_count |-> 0, price_competitiveness |-> 300,
          market_position |-> "Premium", days_since_launch |-> 400,
          trend_momentum |-> 500, lifecycle_stage |-> "Mature"]
    ELSE IF pid = "E"
    THEN [avg_rating |-> 10, review_count |-> 0, price_competitiveness |-> -100,
          market_position |-> "Budget", days_since_launch |-> 50,
          trend_momentum |-> -500, lifecycle_stage |-> "Growing"]
    ELSE [avg_rating |-> 30, review_count |-> 1, price_competitiveness |-> 50,
          market_position |-> "Budget", days_since_launch |-> 200,
          trend_momentum |-> 10, lifecycle_stage |-> "Mature"]

\* product.category and product.price
Category(pid) == IF pid = "B" THEN "Hats" ELSE "Shoes"

Price(pid) == IF pid = "A" THEN 20 ELSE IF pid = "B" THEN 80 ELSE 150

\* str.lower() on the strings of the model
Lower(str) ==
    CASE str \in {"Shoes", "SHOES"} -> "shoes"
      [] str = "Hats" -> "hats"
      [] str = "Premium" -> "premium"
      [] str = "Budget" -> "budget"
      [] str = "Luxury" -> "luxury"
      [] OTHER -> str

\* the filters of get_cold_start_recommendations; None is "" for the
\* strings and the empty tuple for the range
CategoryFilters == {"", "SHOES", "hats", "toys"}

PriceRanges == {<<>>, <<0, 100>>, <<200, 300>>}

MarketPositions == {"", "premium", "Luxury"}

\* the catalogs a manager is initialized with; the second lists B twice
Catalogs == {<<"A", "B">>, <<"B", "C", "B">>}

----------------------------------------------------------------------------
(* ColdStartRecommender *)

MinOf(S) == CHOOSE x \in S : \A y \in S : x <= y

MaxOf(S) == CHOOSE x \in S : \A y \in S : x >= y

\* the products of a recommender that carry features
Featured(products) == {pid \in Range(products) : HasFeatures(pid)}

\* self.rating_stats, self.review_count_stats
rating_min(products) ==
    IF Featured(products) = {} THEN 0
    ELSE MinOf({Features(pid).avg_rating : pid \in Featured(products)})

rating_max(products) ==
    IF Featured(products) = {} THEN 50
    ELSE MaxOf({Features(pid).avg_rating : pid \in Featured(products)})

review_count_max(products) ==
    IF Featured(products) = {} THEN 100
    ELSE MaxOf({Features(pid).review_count : pid \in Featured(products)})

_calculate_product_score_mutant(products, pid) == IF ~HasFeatures(pid) THEN 5000 ELSE Features(pid).price_competitiveness * 20 + ((Features(pid).trend_momentum + 100) * 15) \div 2 + 2000

\* ColdStartRecommender._calculate_product_score, in units of 1/10000
_calculate_product_score(products, pid) ==
    IF ~HasFeatures(pid) THEN 5000
    ELSE LET f == Features(pid)
             rating == IF rating_max(products) > rating_min(products)
                       THEN ((f.avg_rating - rating_min(products)) * 2500)
                               \div (rating_max(products) - rating_min(products))
                       ELSE 2000
             reviews == IF f.review_count > 0 /\ review_count_max(products) > 0
                        THEN (LnCenti(1 + f.review_count) * 1500)
                                \div LnCenti(1 + review_count_max(products))
                        ELSE 0
             price == f.price_competitiveness * 20
             momentum == ((f.trend_momentum + 100) * 15) \div 2
             freshness == IF f.days_since_launch <= 30 THEN 1000
                          ELSE IF f.days_since_launch <= 90 THEN 800
                          ELSE IF f.days_since_launch <= 180 THEN 600
                          ELSE 400
             lifecycle == IF f.lifecycle_stage = "New" THEN 1350
                          ELSE IF f.lifecycle_stage = "Growing" THEN 1200
                          ELSE IF f.lifecycle_stage = "Mature" THEN 900
                          ELSE IF f.lifecycle_stage = "Declining" THEN 450
                          ELSE 750
         IN Max(0, Min(10000, rating + reviews + price + momentum + freshness + lifecycle))

\* ColdStartRecommender.__init__: the products, keyed by id, and the
\* scores that _prepare_feature_cache puts into _feature_cache
NewColdStartRecommender(all_products) ==
    [exists |-> TRUE, products |-> DictKeys(all_products),
     feature_cache |-> [pid \in Range(all_products) |->
                          _calculate_product_score(DictKeys(all_products), pid)]]

\* self.cold_start_recommender = None
NoRecommender == [exists |-> FALSE, products |-> <<>>, feature_cache |-> << >>]

NotExcluded_mutant(products, exclude_products) == products

\* the products of a list that are not excluded, in list order
NotExcluded(products, exclude_products) ==
    SelectSeq(products, LAMBDA pid : pid \notin exclude_products)

\* ColdStartRecommender.get_cold_start_recommendations(exclude_products=...),
\* called without filters. The sort key is the cached score plus a draw of
\* np.random.normal(0, 0.01), whose support is the whole line: every order
\* of the candidates can come out.
get_cold_start_recommendations(cold, exclude_products) ==
    LET filtered_products == NotExcluded(cold.products, exclude_products)
    IN Orderings(Range(filtered_products))

\* the filter loop of get_cold_start_recommendations: the product is kept
Kept(pid, category_filter, price_range, market_position, exclude_products) ==
    /\ pid \notin exclude_products
    /\ ~(category_filter # "" /\ Lower(Category(pid)) # Lower(category_filter))
    /\ ~(price_range # <<>> /\ ~(price_range[1] <= Price(pid) /\ Price(pid) <= price_range[2]))
    /\ ~(/\ market_position # ""
         /\ HasFeatures(pid)
         /\ Lower(Features(pid).market_position) # Lower(market_position))

filtered_cold_start_mutant(cold, category_filter, price_range, market_position, exclude_products) == Orderings(Range(SelectSeq(cold.products, LAMBDA pid : Kept(pid, category_filter, price_range, market_position, exclude_products))))

\* ColdStartRecommender.get_cold_start_recommendations with its filters:
\* the kept products, or every product not excluded when none is kept, in
\* any order (the sort key carries a normal draw)
filtered_cold_start(cold, category_filter, price_range, market_position, exclude_products) ==
    LET kept == SelectSeq(cold.products, LAMBDA pid :
                    Kept(pid, category_filter, price_range, market_position,
                         exclude_products))
        filtered_products == IF kept = <<>>
                             THEN NotExcluded(cold.products, exclude_products)
                             ELSE kept
    IN Orderings(Range(filtered_products))

\* a stable sort of a list of [product, score] by descending score
RECURSIVE SortByScoreDesc(_)
SortByScoreDesc(scored) ==
    IF scored = <<>> THEN <<>>
    ELSE LET best == CHOOSE i \in 1..Len(scored) :
                        /\ \A j \in 1..Len(scored) : scored[i].score >= scored[j].score
                        /\ \A j \in 1..(i - 1) : scored[j].score < scored[i].score
         IN <<scored[best]>> \o SortByScoreDesc(RemoveAt(scored, best))

\* trending_scored[:n_products]
Truncate(s, n) == SubSeq(s, 1, Min(n, Len(s)))

get_trending_products_mutant(cold, n_products, min_trend_momentum, exclude_products) == Truncate(SelectSeq(cold.products, LAMBDA pid : pid \notin exclude_products /\ HasFeatures(pid) /\ Features(pid).trend_momentum >= min_trend_momentum), n_products)

\* ColdStartRecommender.get_trending_products
get_trending_products(cold, n_products, min_trend_momentum, exclude_products) ==
    LET strong == SelectSeq(cold.products, LAMBDA pid :
                      /\ pid \notin exclude_products
                      /\ HasFeatures(pid)
                      /\ Features(pid).trend_momentum >= min_trend_momentum
                      /\ Features(pid).lifecycle_stage \in {"New", "Growing"})
        trending_candidates ==
            IF strong # <<>> THEN strong
            ELSE SelectSeq(cold.products, LAMBDA pid :
                      /\ pid \notin exclude_products
                      /\ HasFeatures(pid)
                      /\ Features(pid).trend_momentum > 0)
        trending_scored ==
            [k \in 1..Len(trending_candidates) |->
               LET pid == trending_candidates[k]
               IN [product |-> pid,
                   score |-> _calculate_product_score(cold.products, pid)
                             + Features(pid).trend_momentum * 30
                             + (IF Features(pid).lifecycle_stage \in {"New", "Growing"}
                                THEN 2000 ELSE 0)]]
        sorted == SortByScoreDesc(trending_scored)
    IN Truncate([k \in 1..Len(sorted) |-> sorted[k].product], n_products)

----------------------------------------------------------------------------
(* BanditManager *)

\* the context names of requests and initializations
Contexts == {"global", "shoes"}

\* the contexts argument of initialize_system: None, or a list of names
ContextLists == {<<>>, <<"shoes">>}

Strategies == {"adaptive", "cold_start", "trending", "bandit", "popular"}

\* user_interactions_count
UserCounts == {0, 1}

\* get_trending_products(min_trend_momentum=0.3), in hundredths
DefaultMinTrendMomentum == 30

\* BanditManager._create_bandit_instance: the bandit stored under bandit_id
_create_bandit_instance(bs, bandit_id, products, bandit_type) ==
    LET b == IF bandit_type = "epsilon_greedy"
             THEN NewBandit("epsilon_greedy", products, DefaultEpsilonPct,
                            DefaultConfidenceLevel)
             ELSE NewBandit("ucb", products, DefaultEpsilonPct, DefaultConfidenceLevel)
    IN [c \in (DOMAIN bs) \cup {bandit_id} |-> IF c = bandit_id THEN b ELSE bs[c]]

\* for context in contexts_to_create: self._create_bandit_instance(...)
RECURSIVE CreateBandits(_, _, _, _)
CreateBandits(bs, contexts_to_create, products, bandit_type) ==
    IF contexts_to_create = <<>> THEN bs
    ELSE CreateBandits(_create_bandit_instance(bs, Head(contexts_to_create),
                                               products, bandit_type),
                       Tail(contexts_to_create), products, bandit_type)

\* contexts if contexts else ["global"]
contexts_to_create(contexts) == IF contexts # <<>> THEN contexts ELSE <<"global">>

\* an outcome of _get_global_recommendations: the returned list, with the
\* ids and the length of all_recommendations
Merged(final, all_recommendations) ==
    [merged |-> final,
     collected |-> Range(all_recommendations),
     n_collected |-> Len(all_recommendations)]

\* the lists all_recommendations can hold after the loop over the bandits;
\* a bandit whose select_products raises adds nothing. The contexts are
\* visited in a fixed order: the list is shuffled before it is returned.
RECURSIVE AllRecommendations(_, _, _, _)
AllRecommendations(bs, todo, n_products, exclude_products) ==
    IF todo = {} THEN {<<>>}
    ELSE LET c == CHOOSE x \in todo : TRUE
         IN {(IF o.raised THEN <<>> ELSE o.ids) \o rest :
                o \in select_products(bs[c], n_products, exclude_products),
                rest \in AllRecommendations(bs, todo \ {c}, n_products, exclude_products)}

Dedup_mutant(all_recommendations, exclude_products) == all_recommendations

\* the loop filling unique_recommendations: first occurrences, without the
\* products of exclude_products
RECURSIVE Dedup(_, _)
Dedup(all_recommendations, seen_products) ==
    IF all_recommendations = <<>> THEN <<>>
    ELSE LET p == Head(all_recommendations)
         IN IF p \in seen_products THEN Dedup(Tail(all_recommendations), seen_products)
            ELSE <<p>> \o Dedup(Tail(all_recommendations), seen_products \cup {p})

\* random.shuffle(unique_recommendations): every order of the list
Shuffles(s) ==
    {[i \in 1..Len(s) |-> s[perm[i]]] : perm \in Orderings(1..Len(s))}

\* BanditManager._get_global_recommendations
_get_global_recommendations(bs, n_products, exclude_products) ==
    UNION {{Merged(final, all_recommendations) :
              final \in Shuffles(Dedup(all_recommendations, exclude_products))} :
           all_recommendations \in
              AllRecommendations(bs, DOMAIN bs, n_products, exclude_products)}

\* an outcome of the routing of get_recommendations
Routed(source_type, ids, m) ==
    [source |-> source_type, ids |-> ids, merged |-> m.merged,
     collected |-> m.collected, n_collected |-> m.n_collected]

NoMerge == Merged(<<>>, <<>>)

\* the calls get_recommendations makes to the cold-start recommender
ColdStart(cold, exclude_products, source_type) ==
    {Routed(source_type, ids, NoMerge) :
        ids \in get_cold_start_recommendations(cold, exclude_products)}

Fallback_mutant(cold, exclude_products) == {Routed("bandit", <<>>, NoMerge)}

\* the branches of the bandit path that find no bandit to ask: "Falling
\* back to cold start (if available)"
Fallback(cold, exclude_products) ==
    IF cold.exists THEN ColdStart(cold, exclude_products, "cold_start_fallback")
    ELSE {Routed("unknown", <<>>, NoMerge)}

LastResort_mutant(cold, o, exclude_products) == {o}

\* "If no products obtained, try a last-resort cold start if not already used"
LastResort(cold, o, exclude_products) ==
    IF o.ids = <<>> /\ cold.exists /\ o.source \notin {"cold_start", "cold_start_fallback"}
    THEN {Routed("cold_start_last_resort", ids, o) :
             ids \in get_cold_start_recommendations(cold, exclude_products)}
    ELSE {o}

\* the except branch of get_recommendations
OnError(cold, exclude_products) ==
    IF cold.exists THEN ColdStart(cold, exclude_products, "error_cold_start_fallback")
    ELSE {Routed("error", <<>>, NoMerge)}

\* the branch of get_recommendations that the strategy selects, before the
\* last resort
Route(bs, cold, n_products, context, is_new_user, exclude_products, recommendation_strategy) ==
    IF recommendation_strategy = "cold_start"
       \/ (recommendation_strategy = "adaptive" /\ is_new_user)
    THEN IF cold.exists THEN ColdStart(cold, exclude_products, "cold_start")
         ELSE {Routed("unknown", <<>>, NoMerge)}
    ELSE IF recommendation_strategy = "trending"
    THEN IF cold.exists
         THEN {Routed("trending",
                      get_trending_products(cold, n_products, DefaultMinTrendMomentum,
                                            exclude_products),
                      NoMerge)}
         ELSE {Routed("unknown", <<>>, NoMerge)}
    ELSE IF recommendation_strategy = "bandit"
            \/ (recommendation_strategy = "adaptive" /\ ~is_new_user)
    THEN IF context = "global"
         THEN IF DOMAIN bs # {}
              THEN {Routed("global_bandit", m.merged, m) :
                       m \in _get_global_recommendations(bs, n_products, exclude_products)}
              ELSE Fallback(cold, exclude_products)
         ELSE IF context \in DOMAIN bs
              THEN {IF o.raised THEN Routed("raised", <<>>, NoMerge)
                    ELSE Routed("bandit", o.ids, NoMerge) :
                       o \in select_products(bs[context], n_products, exclude_products)}
              ELSE Fallback(cold, exclude_products)
    ELSE {Routed("unknown", <<>>, NoMerge)}

\* BanditManager.get_recommendations: the routing, the last resort, and the
\* except branch for a call that raised
get_recommendations(bs, cold, n_products, context, count, exclude_products, strategy) ==
    LET user_interactions_count == count
        recommendation_strategy == strategy
        is_new_user == user_interactions_count = 0
    IN UNION {IF o.source = "raised" THEN OnError(cold, exclude_products)
              ELSE LastResort(cold, o, exclude_products) :
                 o \in Route(bs, cold, n_products, context, is_new_user,
                             exclude_products, recommendation_strategy)}

\* the contexts whose bandit get_recommendations calls select_products on:
\* every bandit for 'global' on the bandit path, the named one otherwise
ConsultedBandits(bs, context, count, strategy) ==
    IF strategy = "bandit" \/ (strategy = "adaptive" /\ count # 0)
    THEN IF context = "global" THEN DOMAIN bs ELSE {context} \cap DOMAIN bs
    ELSE {}

\* self.bandits as get_recommendations leaves it
BanditsAfterRecommendations(bs, context, count, exclude_products, strategy) ==
    [c \in DOMAIN bs |->
        IF c \in ConsultedBandits(bs, context, count, strategy)
        THEN AfterSelectProducts(bs[c], exclude_products)
        ELSE bs[c]]

\* the result of a manager call that returns a bool
Done(bs, returned) == [bandits |-> bs, returned |-> returned]

update_bandit_data_mutant(bs, bandit_id, interactions) ==
    IF bandit_id \notin DOMAIN bs THEN Done(bs, FALSE)
    ELSE Done([c \in DOMAIN bs |-> update_rewards(bs[c], interactions)], TRUE)

\* BanditManager.update_bandit_data
update_bandit_data(bs, bandit_id, interactions) ==
    IF bandit_id \notin DOMAIN bs THEN Done(bs, FALSE)
    ELSE Done([bs EXCEPT ![bandit_id] = update_rewards(bs[bandit_id], interactions)], TRUE)

record_interaction_mutant(bs, bandit_id, product_id, reward) ==
    IF bandit_id \notin DOMAIN bs THEN Done(bs, FALSE)
    ELSE Done([c \in DOMAIN bs |-> update(bs[c], product_id, reward)], TRUE)

\* BanditManager.record_interaction
record_interaction(bs, bandit_id, product_id, reward) ==
    IF bandit_id \notin DOMAIN bs THEN Done(bs, FALSE)
    ELSE Done([bs EXCEPT ![bandit_id] = update(bs[bandit_id], product_id, reward)], TRUE)

reset_bandit_mutant(bs, bandit_id) ==
    Done([c \in DOMAIN bs |-> IF c = bandit_id THEN reset(bs[c]) ELSE bs[c]], TRUE)

\* BanditManager.reset_bandit
reset_bandit(bs, bandit_id) ==
    IF bandit_id \notin DOMAIN bs THEN Done(bs, FALSE)
    ELSE Done([bs EXCEPT ![bandit_id] = reset(bs[bandit_id])], TRUE)

reset_all_bandits_mutant(bs, served) == [bandits |-> [c \in DOMAIN bs |-> reset(bs[c])], total_recommendations_served |-> served]

\* BanditManager.reset_all_bandits: every bandit reset, the counter at 0
reset_all_bandits(bs, served) ==
    [bandits |-> [c \in DOMAIN bs |-> reset(bs[c])],
     total_recommendations_served |-> 0]

\* product_stats[:5]
TopProducts == 5

\* BanditManager.get_bandit_stats: None (returned FALSE), or the product ids
\* of top_products in their order
get_bandit_stats(bs, bandit_id) ==
    IF bandit_id \notin DOMAIN bs THEN [returned |-> FALSE, ids |-> <<>>]
    ELSE [returned |-> TRUE, ids |-> Truncate(get_product_stats(bs[bandit_id]), TopProducts)]

----------------------------------------------------------------------------
(* The reward of an interaction, and SimplifiedRecommendationSystem of     *)
(* models/simplified.py with the handlers of main2.py. Rewards are in      *)
(* hundredths here, preference weights and product scores in units of      *)
(* 1/10000. The system knows products A and B.                             *)

Users == {"u1", "u2"}

\* the action of an interaction; "share" is in no table, "" is a record
\* without the key
ActionTypes == {"tick", "cross", "view", "cart_add", "purchase", "ar_view", "share"}

\* reward_mapping.get(request.action, 0.0) of record_user_feedback
reward_mapping(action) ==
    CASE action = "tick" -> 100
      [] action = "cross" -> -50
      [] action = "view" -> 10
      [] action = "cart_add" -> 80
      [] action = "purchase" -> 200
      [] action = "ar_view" -> 30
      [] OTHER -> 0

\* the reward of a request or of a record: the key is missing, it holds
\* null, or it holds a number
RewardInputs ==
    {[reward_key |-> "missing", reward |-> 0], [reward_key |-> "null", reward |-> 0]}
       \cup {[reward_key |-> "number", reward |-> r] : r \in {-50, 0, 100}}

\* record_user_feedback: request.reward is Optional[float] = None, so a
\* missing key and a null are both None
feedback_reward(reward_key, reward, action) ==
    IF reward_key # "number" THEN reward_mapping(action) ELSE reward

\* create_interaction_from_dict (the same in bandit.py and simplified.py):
\* action = get('action', 'view'), reward = float(get('reward', 0.0)), and
\* float(None) raises TypeError
create_interaction_from_dict(interaction_data) ==
    [raised |-> interaction_data.reward_key = "null",
     userId |-> interaction_data.userId,
     productId |-> interaction_data.productId,
     action |-> IF interaction_data.action = "" THEN "view" ELSE interaction_data.action,
     reward |-> IF interaction_data.reward_key = "number" THEN interaction_data.reward
                ELSE 0]

\* get_user_interactions: the records converted, those that raise left out
RECURSIVE Converted(_)
Converted(interactions) ==
    IF interactions = <<>> THEN <<>>
    ELSE LET interaction == create_interaction_from_dict(Head(interactions))
         IN (IF interaction.raised THEN <<>>
             ELSE <<[userId |-> interaction.userId, productId |-> interaction.productId,
                     action |-> interaction.action, reward |-> interaction.reward]>>)
            \o Converted(Tail(interactions))

\* product.brand, and the numeric entries of the features dict of
\* simplified.py's Product (B has none)
Brand(pid) == IF pid = "A" THEN "acme" ELSE "bolt"

NumericFeatures(pid) == IF pid = "A" THEN <<[name |-> "avg_rating", value |-> 4]>> ELSE <<>>

\* SimplifiedRecommendationSystem._get_price_range
_get_price_range(price) ==
    IF price < 100 THEN "budget"
    ELSE IF price < 500 THEN "mid_range"
    ELSE IF price < 1000 THEN "premium"
    ELSE "luxury"

\* dict.get(k, default) and d[k] = v
Get(d, k, default) == IF k \in DOMAIN d THEN d[k] ELSE default

Put(d, k, v) == [x \in (DOMAIN d) \cup {k} |-> IF x = k THEN v ELSE d[x]]

\* SimplifiedRecommendationSystem.__init__
NewSystem(products) ==
    [products |-> DictKeys(products),
     user_preferences |-> << >>,
     product_scores |-> [pid \in Range(products) |-> 0],
     user_interaction_counts |-> << >>]

\* recommendation_system = None
NoSystem ==
    [products |-> <<>>, user_preferences |-> << >>, product_scores |-> << >>,
     user_interaction_counts |-> << >>]

\* the keys one interaction adds to, with the amounts: category, brand,
\* price range, numeric features, action
PreferenceUpdates(interaction) ==
    LET pid == interaction.productId
        reward == interaction.reward
    IN <<[key |-> <<"category", Lower(Category(pid))>>, amount |-> 20 * reward],
         [key |-> <<"brand", Lower(Brand(pid))>>, amount |-> 15 * reward],
         [key |-> <<"price_range", _get_price_range(Price(pid))>>, amount |-> 10 * reward]>>
       \o [k \in 1..Len(NumericFeatures(pid)) |->
             [key |-> <<"feature", NumericFeatures(pid)[k].name>>,
              amount |-> 10 * reward * NumericFeatures(pid)[k].value]]
       \o <<[key |-> <<"action", interaction.action>>, amount |-> 5 * reward]>>

RECURSIVE AddAll(_, _)
AddAll(user_prefs, updates) ==
    IF updates = <<>> THEN user_prefs
    ELSE AddAll(Put(user_prefs, Head(updates).key,
                    Get(user_prefs, Head(updates).key, 0) + Head(updates).amount),
                Tail(updates))

\* the loop of _update_user_preferences; an interaction with a product the
\* system does not know is passed over
RECURSIVE PreferencesAfter(_, _, _)
PreferencesAfter(user_prefs, products, interactions) ==
    IF interactions = <<>> THEN user_prefs
    ELSE PreferencesAfter(IF Head(interactions).productId \in Range(products)
                          THEN AddAll(user_prefs, PreferenceUpdates(Head(interactions)))
                          ELSE user_prefs,
                          products, Tail(interactions))

\* SimplifiedRecommendationSystem._update_user_preferences
_update_user_preferences(system, user_id, interactions) ==
    Put(system.user_preferences, user_id,
        PreferencesAfter(Get(system.user_preferences, user_id, << >>),
                         system.products, interactions))

\* self.product_scores[interaction.productId] += interaction.reward * 0.1
\* for each interaction; a product without score raises KeyError
RECURSIVE AddScores(_, _)
AddScores(product_scores, interactions) ==
    IF interactions = <<>> THEN [raised |-> FALSE, product_scores |-> product_scores]
    ELSE IF Head(interactions).productId \notin DOMAIN product_scores
    THEN [raised |-> TRUE, product_scores |-> product_scores]
    ELSE AddScores([product_scores EXCEPT ![Head(interactions).productId] =
                       @ + 10 * Head(interactions).reward],
                   Tail(interactions))

\* SimplifiedRecommendationSystem.update_from_interactions: scores,
\* preferences and counts are emptied and built again from the list
update_from_interactions(system, interactions) ==
    LET users == {interactions[k].userId : k \in 1..Len(interactions)}
        Of(user_id) == SelectSeq(interactions, LAMBDA i : i.userId = user_id)
        emptied == [system EXCEPT !.user_preferences = << >>]
        scored == AddScores([pid \in Range(system.products) |-> 0], interactions)
    IN [raised |-> scored.raised,
        system |-> [products |-> system.products,
                    user_preferences |->
                       [u \in users |-> _update_user_preferences(emptied, u, Of(u))[u]],
                    product_scores |-> scored.product_scores,
                    user_interaction_counts |-> [u \in users |-> Len(Of(u))]]]

\* SimplifiedRecommendationSystem.record_single_interaction, for a product
\* the system knows
record_single_interaction(system, interaction) ==
    [products |-> system.products,
     user_preferences |-> _update_user_preferences(system, interaction.userId,
                                                   <<interaction>>),
     product_scores |-> [system.product_scores EXCEPT ![interaction.productId] =
                            @ + 10 * interaction.reward],
     user_interaction_counts |->
         Put(system.user_interaction_counts, interaction.userId,
             Get(system.user_interaction_counts, interaction.userId, 0) + 1)]

\* get_recommendations: is_new_user = user_interaction_counts.get(user_id, 0) == 0
IsNewUser(system, user_id) == Get(system.user_interaction_counts, user_id, 0) = 0

\* the interactions the system holds
RECURSIVE SumCounts(_, _)
SumCounts(counts, users) ==
    IF users = {} THEN 0
    ELSE LET u == CHOOSE x \in users : TRUE
         IN counts[u] + SumCounts(counts, users \ {u})

TotalInteractions(system) ==
    SumCounts(system.user_interaction_counts, DOMAIN system.user_interaction_counts)

----------------------------------------------------------------------------
(* The calls and their record *)

NoCall ==
    [op |-> "none", product_id |-> "", reward |-> 0, interactions |-> <<>>,
     n_products |-> 0, exclude_products |-> {}, raised |-> FALSE,
     ids |-> <<>>, arm |-> 0,
     context |-> "", strategy |-> "", user_interactions_count |-> 0,
     source |-> "", is_new_user |-> FALSE, returned |-> FALSE,
     merged |-> <<>>, collected |-> {}, n_collected |-> 0,
     all_products |-> <<>>, contexts |-> <<>>, counts |-> <<>>,
     bandit_type |-> "", epsilon |-> 0, confidence_level |-> 0,
     category_filter |-> "", price_range |-> <<>>, market_position |-> "",
     min_trend_momentum |-> 0,
     user_id |-> "", action |-> "", reward_key |-> "", applied |-> 0]

\* no request handler is in progress
NoLoop ==
    [pc |-> << >>, running |-> "none", interactions |-> <<>>, todo |-> <<>>,
     product_id |-> "", reward |-> 0, seen |-> <<>>, initial |-> <<>>]

\* bandit = EpsilonGreedyBandit(products, epsilon) or UCBBandit(products)
InitBandit ==
    \E products \in InitProductLists :
        \/ \E epsilon \in Epsilons :
             bandit = NewBandit("epsilon_greedy", products, epsilon, DefaultConfidenceLevel)
        \/ bandit = NewBandit("ucb", products, DefaultEpsilonPct, DefaultConfidenceLevel)

Init ==
    /\ InitBandit
    /\ bandits = << >>
    /\ cold_start_recommender = NoRecommender
    /\ default_bandit_type = "epsilon_greedy"
    /\ total_recommendations_served = 0
    /\ user = [interactions_count |-> 0, exclude_products |-> {}]
    /\ loop = NoLoop
    /\ recommendation_system = NoSystem
    /\ last = NoCall

\* bandit.update(product_id, reward)
Update ==
    /\ bandit.total_pulls < MaxPulls
    /\ \E product_id \in ProductIds, reward \in Rewards :
         /\ bandit' = update(bandit, product_id, reward)
         /\ last' = [NoCall EXCEPT !.op = "update", !.product_id = product_id,
                                   !.reward = reward]
    /\ UNCHANGED managerVars

\* bandit.update_rewards(interactions), interactions drawn from lists
UpdateRewardsFrom(lists) ==
    /\ \E interactions \in lists :
         /\ bandit' = update_rewards(bandit, interactions)
         /\ last' = [NoCall EXCEPT !.op = "update_rewards", !.interactions = interactions]
    /\ UNCHANGED managerVars

UpdateRewards == UpdateRewardsFrom(InteractionLists)

\* the same call with the lists of at most one interaction
UpdateRewardsShort == UpdateRewardsFrom(SeqsUpTo(Interactions, 1))

\* bandit.reset()
Reset ==
    /\ bandit' = reset(bandit)
    /\ last' = [NoCall EXCEPT !.op = "reset"]
    /\ UNCHANGED managerVars

\* bandit.select_products(n_products, exclude_products)
SelectProducts ==
    /\ \E n_products \in 0..MaxN, exclude_products \in ExcludeSets :
         \E o \in select_products(bandit, n_products, exclude_products) :
            /\ last' = [NoCall EXCEPT !.op = "select_products", !.n_products = n_products,
                                   !.exclude_products = exclude_products,
                                   !.raised = o.raised, !.ids = o.ids]
            /\ bandit' = AfterSelectProducts(bandit, exclude_products)
    /\ UNCHANGED managerVars

\* bandit.select_products(n_products, exclude_products) of test.py
TestSelectProducts ==
    /\ \E n_products \in 0..MaxN, exclude_products \in ExcludeSets :
         \E ids \in test_select_products(bandit, n_products, exclude_products) :
            last' = [NoCall EXCEPT !.op = "test_select_products",
                                   !.n_products = n_products,
                                   !.exclude_products = exclude_products,
                                   !.ids = ids]
    /\ UNCHANGED <<bandit, managerVars>>

\* bandit.select_arm()
SelectArm ==
    /\ \E o \in select_arm(bandit) :
            last' = [NoCall EXCEPT !.op = "select_arm", !.raised = o.raised, !.arm = o.arm,
                                   !.counts = bandit.counts]
    /\ UNCHANGED <<bandit, managerVars>>

\* temp_bandit.select_arm() in the first round of
\* bandit.select_products(n_products, exclude_products)
SelectArmOfTemp ==
    /\ \E exclude_products \in ExcludeSets :
         LET available_arms_indices == AvailableArms(bandit, exclude_products, 1)
             temp_bandit == TempBandit(bandit, available_arms_indices)
         IN /\ available_arms_indices # <<>>
            /\ \E o \in select_arm(temp_bandit) :
                  last' = [NoCall EXCEPT !.op = "select_arm_temp",
                                         !.exclude_products = exclude_products,
                                         !.raised = o.raised, !.arm = o.arm,
                                         !.counts = temp_bandit.counts]
    /\ UNCHANGED <<bandit, managerVars>>

\* bandit.select_arm() of test.py's UCBBandit
TestSelectArm ==
    /\ bandit.type = "ucb"
    /\ \E o \in test_UCBSelectArm(bandit) :
            last' = [NoCall EXCEPT !.op = "test_select_arm", !.raised = o.raised,
                                   !.arm = o.arm, !.counts = bandit.counts]
    /\ UNCHANGED <<bandit, managerVars>>

\* bandit = EpsilonGreedyBandit(products, epsilon) or
\* bandit = UCBBandit(products, confidence_level), at any time; a raising
\* constructor leaves the variable as it was
Construct ==
    /\ \E products \in InitProductLists \cup {<<>>} :
         \/ \E epsilon \in ConstructorEpsilons :
              LET o == EpsilonGreedyBandit(products, epsilon)
              IN /\ bandit' = IF o.raised THEN bandit ELSE o.bandit
                 /\ last' = [NoCall EXCEPT !.op = "construct",
                                           !.all_products = products,
                                           !.bandit_type = "epsilon_greedy",
                                           !.epsilon = epsilon,
                                           !.raised = o.raised]
         \/ \E confidence_level \in ConstructorConfidenceLevels :
              LET o == UCBBandit(products, confidence_level)
              IN /\ bandit' = IF o.raised THEN bandit ELSE o.bandit
                 /\ last' = [NoCall EXCEPT !.op = "construct",
                                           !.all_products = products,
                                           !.bandit_type = "ucb",
                                           !.confidence_level = confidence_level,
                                           !.raised = o.raised]
    /\ UNCHANGED managerVars

(* The calls on the simplified system and on the reward of a record *)

\* the records the backend returns for a user: their own interactions
FetchedRecords(user_id) ==
    {[userId |-> user_id, productId |-> pid, action |-> "tick",
      reward_key |-> r.reward_key, reward |-> r.reward] :
        pid \in {"A", "B"},
        r \in {[reward_key |-> "number", reward |-> 100],
               [reward_key |-> "missing", reward |-> 0],
               [reward_key |-> "null", reward |-> 0]}}

\* create_interaction_from_dict(interaction_data)
CreateInteractionFromDict ==
    /\ \E action \in ActionTypes \cup {""}, r \in RewardInputs :
         LET interaction == create_interaction_from_dict(
                               [userId |-> "u1", productId |-> "A", action |-> action,
                                reward_key |-> r.reward_key, reward |-> r.reward])
         IN last' = [NoCall EXCEPT !.op = "create_interaction_from_dict",
                                   !.action = action,
                                   !.reward_key = r.reward_key,
                                   !.reward = r.reward,
                                   !.raised = interaction.raised,
                                   !.applied = interaction.reward]
    /\ UNCHANGED <<bandit, managerVars>>

\* POST /feedback/record: record_user_feedback(request), while the system
\* holds fewer than MaxFeedback interactions
RecordUserFeedback ==
    /\ TotalInteractions(recommendation_system) < MaxFeedback
    /\ \E user_id \in Users, product_id \in ProductIds, action \in ActionTypes,
          r \in RewardInputs :
         LET reward == feedback_reward(r.reward_key, r.reward, action)
             call == [NoCall EXCEPT !.op = "record_user_feedback",
                                    !.user_id = user_id,
                                    !.product_id = product_id,
                                    !.action = action,
                                    !.reward_key = r.reward_key,
                                    !.reward = r.reward]
         IN IF product_id \notin Range(recommendation_system.products)
            THEN /\ last' = [call EXCEPT !.raised = TRUE]
                 /\ UNCHANGED recommendation_system
            ELSE /\ recommendation_system' =
                       record_single_interaction(recommendation_system,
                           [userId |-> user_id, productId |-> product_id,
                            action |-> action, reward |-> reward])
                 /\ last' = [call EXCEPT !.applied = reward]
    /\ UNCHANGED <<bandit, bandits, cold_start_recommender, default_bandit_type,
                   total_recommendations_served, user, loop>>

\* POST /users/{user_id}/sync: sync_user_data(user_id)
SyncUserData ==
    /\ \E user_id \in Users :
         \E fetched \in SeqsUpTo(FetchedRecords(user_id), 1) :
            LET user_interactions == Converted(fetched)
                r == update_from_interactions(recommendation_system, user_interactions)
                call == [NoCall EXCEPT !.op = "sync_user_data", !.user_id = user_id,
                                       !.n_collected = Len(user_interactions)]
            IN IF user_interactions # <<>>
               THEN /\ recommendation_system' = r.system
                    /\ last' = [call EXCEPT !.raised = r.raised]
               ELSE /\ UNCHANGED recommendation_system
                    /\ last' = call
    /\ UNCHANGED <<bandit, bandits, cold_start_recommender, default_bandit_type,
                   total_recommendations_served, user, loop>>

(* The cold-start recommender's calls *)

\* the product lists a recommender is built from
ColdStartCatalogs ==
    Catalogs \cup {<<"A">>, <<"D">>, <<"E">>, <<"A", "B", "C">>, <<"E", "D", "B">>}

\* the n_products and min_trend_momentum arguments of get_trending_products
TrendingCounts == {0, 1, MaxN}

MinMomenta == {-600, 0, DefaultMinTrendMomentum, 60}

\* cold_start_recommender = ColdStartRecommender(products)
ConstructRecommender ==
    /\ \E products \in ColdStartCatalogs :
         /\ cold_start_recommender' = NewColdStartRecommender(products)
         /\ last' = [NoCall EXCEPT !.op = "construct_recommender",
                                   !.all_products = products]
    /\ UNCHANGED <<bandit, bandits, default_bandit_type,
                   total_recommendations_served, user, loop,
                   recommendation_system>>

\* cold_start_recommender.get_cold_start_recommendations(category_filter,
\*     price_range, market_position, exclude_products)
GetColdStartRecommendations ==
    /\ cold_start_recommender.exists
    /\ \E category_filter \in CategoryFilters, price_range \in PriceRanges,
          market_position \in MarketPositions, exclude_products \in ExcludeSets :
         \E ids \in filtered_cold_start(cold_start_recommender, category_filter,
                                        price_range, market_position,
                                        exclude_products) :
            last' = [NoCall EXCEPT !.op = "get_cold_start_recommendations",
                                   !.category_filter = category_filter,
                                   !.price_range = price_range,
                                   !.market_position = market_position,
                                   !.exclude_products = exclude_products,
                                   !.ids = ids]
    /\ UNCHANGED <<bandit, managerVars>>

\* cold_start_recommender.get_trending_products(n_products,
\*     min_trend_momentum, exclude_products)
GetTrendingProducts ==
    /\ cold_start_recommender.exists
    /\ \E n_products \in TrendingCounts, min_trend_momentum \in MinMomenta,
          exclude_products \in ExcludeSets :
         last' = [NoCall EXCEPT !.op = "get_trending_products",
                                !.n_products = n_products,
                                !.min_trend_momentum = min_trend_momentum,
                                !.exclude_products = exclude_products,
                                !.ids = get_trending_products(cold_start_recommender,
                                                              n_products,
                                                              min_trend_momentum,
                                                              exclude_products)]
    /\ UNCHANGED <<bandit, managerVars>>

(* The manager's calls *)

\* the reward of the interactions recorded through the manager
RecordedRewards == {1}

\* the interaction lists a refresh hands to update_bandit_data
RefreshLists ==
    {<<>>} \cup {<<[productId |-> p, reward |-> 1]>> : p \in ProductIds}

\* manager = BanditManager(default_bandit_type=...); the stand-alone bandit
\* plays no part
InitManager ==
    /\ bandit = NewBandit("ucb", <<"A">>, DefaultEpsilonPct, DefaultConfidenceLevel)
    /\ bandits = << >>
    /\ cold_start_recommender = NoRecommender
    /\ default_bandit_type \in BanditTypes
    /\ total_recommendations_served = 0
    /\ user \in [interactions_count : UserCounts, exclude_products : ExcludeSets]
    /\ loop = NoLoop
    /\ recommendation_system = NoSystem
    /\ last = NoCall

\* manager.initialize_system(all_products, contexts)
InitializeSystem ==
    /\ \E all_products \in Catalogs \cup {<<>>}, contexts \in ContextLists :
         LET call == [NoCall EXCEPT !.op = "initialize_system",
                                    !.all_products = all_products,
                                    !.contexts = contexts]
         IN IF all_products = <<>>
            THEN /\ last' = [call EXCEPT !.raised = TRUE]
                 /\ UNCHANGED <<bandits, cold_start_recommender>>
            ELSE /\ cold_start_recommender' = NewColdStartRecommender(all_products)
                 /\ bandits' = CreateBandits(bandits, contexts_to_create(contexts),
                                             all_products, default_bandit_type)
                 /\ last' = call
    /\ UNCHANGED <<bandit, default_bandit_type, total_recommendations_served, user, loop,
                   recommendation_system>>

\* manager.update_bandit_data(bandit_id, interactions)
UpdateBanditData ==
    /\ \E bandit_id \in Contexts, interactions \in RefreshLists :
         LET r == update_bandit_data(bandits, bandit_id, interactions)
         IN /\ bandits' = r.bandits
            /\ last' = [NoCall EXCEPT !.op = "update_bandit_data", !.context = bandit_id,
                                      !.interactions = interactions,
                                      !.returned = r.returned]
    /\ UNCHANGED <<bandit, cold_start_recommender, default_bandit_type,
                   total_recommendations_served, user, loop,
                   recommendation_system>>

\* manager.record_interaction(bandit_id, product_id, reward), while the
\* bandit holds fewer than MaxPulls pulls
RecordInteraction ==
    /\ \E bandit_id \in Contexts, product_id \in ProductIds, reward \in RecordedRewards :
         /\ bandit_id \in DOMAIN bandits => bandits[bandit_id].total_pulls < MaxPulls
         /\ LET r == record_interaction(bandits, bandit_id, product_id, reward)
            IN /\ bandits' = r.bandits
               /\ last' = [NoCall EXCEPT !.op = "record_interaction",
                                         !.context = bandit_id,
                                         !.product_id = product_id, !.reward = reward,
                                         !.returned = r.returned]
    /\ UNCHANGED <<bandit, cold_start_recommender, default_bandit_type,
                   total_recommendations_served, user, loop,
                   recommendation_system>>

\* manager.reset_bandit(bandit_id)
ResetBandit ==
    /\ \E bandit_id \in Contexts :
         LET r == reset_bandit(bandits, bandit_id)
         IN /\ bandits' = r.bandits
            /\ last' = [NoCall EXCEPT !.op = "reset_bandit", !.context = bandit_id,
                                      !.returned = r.returned]
    /\ UNCHANGED <<bandit, cold_start_recommender, default_bandit_type,
                   total_recommendations_served, user, loop,
                   recommendation_system>>

\* manager.reset_all_bandits()
ResetAllBandits ==
    /\ LET r == reset_all_bandits(bandits, total_recommendations_served)
       IN /\ bandits' = r.bandits
          /\ total_recommendations_served' = r.total_recommendations_served
    /\ last' = [NoCall EXCEPT !.op = "reset_all_bandits"]
    /\ UNCHANGED <<bandit, cold_start_recommender, default_bandit_type, user, loop,
                   recommendation_system>>

\* manager.get_bandit_stats(bandit_id)
GetBanditStats ==
    /\ \E bandit_id \in Contexts :
         LET r == get_bandit_stats(bandits, bandit_id)
         IN last' = [NoCall EXCEPT !.op = "get_bandit_stats", !.context = bandit_id,
                                   !.returned = r.returned, !.ids = r.ids]
    /\ UNCHANGED <<bandit, managerVars>>

\* bandit.get_product_stats()
GetProductStats ==
    /\ last' = [NoCall EXCEPT !.op = "get_product_stats",
                              !.ids = get_product_stats(bandit)]
    /\ UNCHANGED <<bandit, managerVars>>

\* bandit.get_product_stats() of test.py
TestGetProductStats ==
    /\ last' = [NoCall EXCEPT !.op = "test_get_product_stats",
                              !.ids = test_get_product_stats(bandit)]
    /\ UNCHANGED <<bandit, managerVars>>

\* manager.get_recommendations(user_id, n_products, context,
\*     user_interactions_count, exclude_products, recommendation_strategy)
GetRecommendations ==
    /\ total_recommendations_served < MaxServed
    /\ \E n_products \in {1, MaxN}, context \in Contexts,
          recommendation_strategy \in Strategies :
         LET user_interactions_count == user.interactions_count
             exclude_products == user.exclude_products
         IN
         \E o \in get_recommendations(bandits, cold_start_recommender, n_products, context,
                                      user_interactions_count, exclude_products,
                                      recommendation_strategy) :
            /\ bandits' = BanditsAfterRecommendations(bandits, context,
                                                      user_interactions_count,
                                                      exclude_products,
                                                      recommendation_strategy)
            /\ last' = [NoCall EXCEPT !.op = "get_recommendations",
                                   !.n_products = n_products,
                                   !.context = context,
                                   !.user_interactions_count = user_interactions_count,
                                   !.exclude_products = exclude_products,
                                   !.strategy = recommendation_strategy,
                                   !.ids = o.ids,
                                   !.source = o.source,
                                   !.is_new_user = (user_interactions_count = 0),
                                   !.merged = o.merged,
                                   !.collected = o.collected,
                                   !.n_collected = o.n_collected]
    /\ total_recommendations_served' = total_recommendations_served + 1
    /\ UNCHANGED <<bandit, cold_start_recommender, default_bandit_type, user, loop,
                   recommendation_system>>

(* The statistics of one bandit under its three mutating calls *)
Next ==
    \/ Update
    \/ UpdateRewards
    \/ Reset

Spec == Init /\ [][Next]_vars

(* Selection from a bandit whose statistics the mutating calls have set *)
NextSelect ==
    \/ Update
    \/ UpdateRewardsShort
    \/ Reset
    \/ SelectProducts
    \/ TestSelectProducts
    \/ SelectArm

SpecSelect == Init /\ [][NextSelect]_vars

(* Recommendation requests to a manager *)
NextRecommend ==
    \/ InitializeSystem
    \/ UpdateBanditData
    \/ GetRecommendations

SpecRecommend == InitManager /\ [][NextRecommend]_vars

(* Selection by a stand-alone bandit and by the manager, between refreshes *)
NextReadOnly ==
    \/ SelectProducts
    \/ InitializeSystem
    \/ UpdateBanditData
    \/ GetRecommendations

\* a new user without exclusions, or a known user who excludes product B
InitReadOnly ==
    /\ InitManager
    /\ user \in {[interactions_count |-> 0, exclude_products |-> {}],
                 [interactions_count |-> 1, exclude_products |-> {"B"}]}

SpecReadOnly == InitReadOnly /\ [][NextReadOnly]_vars

(* The statistics of the bandits of a manager; the requesting user plays  *)
(* no part                                                                 *)
InitManage ==
    /\ InitManager
    /\ user = [interactions_count |-> 0, exclude_products |-> {}]

NextManage ==
    \/ InitializeSystem
    \/ UpdateBanditData
    \/ RecordInteraction
    \/ ResetBandit
    \/ GetBanditStats

SpecManage == InitManage /\ [][NextManage]_vars

(* select_arm, called on a bandit and on the temporary bandit of
   select_products *)
NextArm ==
    \/ Update
    \/ UpdateRewardsShort
    \/ Reset
    \/ SelectArm
    \/ SelectArmOfTemp
    \/ TestSelectArm

SpecArm == Init /\ [][NextArm]_vars

----------------------------------------------------------------------------
(* Concurrent requests. The endpoints of main.py are coroutines of one     *)
(* event loop: a handler runs until it awaits or returns, and the          *)
(* manager's methods contain no await. Three requests for the same         *)
(* context are in flight: refresh_bandits (update_bandit_data ->           *)
(* update_rewards), update_bandit_reward (record_interaction -> update)    *)
(* and get_bandit_stats (a reader). The methods are taken statement by     *)
(* statement on the context's bandit, here the variable bandit.            *)

Handlers == {"refresh_bandits", "update_bandit_reward", "get_bandit_stats"}

\* the statistics of a bandit, as a reader finds them
Statistics(b) == [counts |-> b.counts, rewards |-> b.rewards, total_pulls |-> b.total_pulls]

Yields_mutant(point) == TRUE

\* the program points at which a handler gives the event loop back: its
\* await and its return
Yields(point) == point \in {"await", "done"}

\* the event loop lets handler h take a step
Scheduled(h) ==
    /\ loop.running \in {"none", h}
    /\ loop.pc[h] # "done"

\* handler h has moved to point: it keeps the event loop unless it yields
Moved(h, point) ==
    [loop EXCEPT !.pc[h] = point,
                 !.running = IF Yields(point) THEN "none" ELSE h]

\* the arms named by a list of interactions, in the order of their first
\* interaction: the keys of product_interactions in update_rewards
NamedArms(b, interactions) ==
    DictKeys(SelectSeq([k \in 1..Len(interactions) |-> interactions[k].productId],
                       LAMBDA pid : InProductToArm(b, pid)))

InitConcurrent ==
    /\ \E products \in InitProductLists,
          interactions \in SeqsUpTo(Interactions, MaxInteractions) \ {<<>>},
          product_id \in ProductIds, reward \in Rewards, pulled \in BOOLEAN :
         LET created == NewBandit("ucb", products, DefaultEpsilonPct, DefaultConfidenceLevel)
             b == IF pulled THEN update(created, created.product_ids[1], 1) ELSE created
         IN /\ bandit = b
            /\ loop = [NoLoop EXCEPT !.pc = [h \in Handlers |-> "start"],
                                     !.interactions = interactions,
                                     !.product_id = product_id,
                                     !.reward = reward,
                                     !.initial = Statistics(b)]
    /\ bandits = << >>
    /\ cold_start_recommender = NoRecommender
    /\ default_bandit_type = "ucb"
    /\ total_recommendations_served = 0
    /\ user = [interactions_count |-> 0, exclude_products |-> {}]
    /\ recommendation_system = NoSystem
    /\ last = NoCall

\* refresh_bandits: await get_user_interactions(userId), then, the list
\* being non-empty, update_bandit_data(context, interactions), i.e.
\* update_rewards, statement by statement
RefreshBandits ==
    LET h == "refresh_bandits"
        point == loop.pc[h]
    IN /\ Scheduled(h)
       /\ \/ /\ point = "start"
             /\ loop' = Moved(h, "await")
             /\ UNCHANGED bandit
          \/ /\ point = "await"
             /\ loop' = Moved(h, "zero_rewards")
             /\ UNCHANGED bandit
          \/ /\ point = "zero_rewards"
             /\ bandit' = [bandit EXCEPT !.rewards = Zeros(n_arms(bandit))]
             /\ loop' = Moved(h, "zero_counts")
          \/ /\ point = "zero_counts"
             /\ bandit' = [bandit EXCEPT !.counts = Zeros(n_arms(bandit))]
             /\ loop' = [Moved(h, "assign_rewards") EXCEPT
                            !.todo = NamedArms(bandit, loop.interactions)]
          \/ /\ point = "assign_rewards"
             /\ IF loop.todo = <<>>
                THEN /\ loop' = Moved(h, "total_pulls")
                     /\ UNCHANGED bandit
                ELSE /\ bandit' = [bandit EXCEPT
                                     !.rewards[product_to_arm(bandit, Head(loop.todo))] =
                                        score_product(Head(loop.todo),
                                                      GroupByArm(bandit, loop.interactions)
                                                         [Head(loop.todo)])]
                     /\ loop' = Moved(h, "assign_counts")
          \/ /\ point = "assign_counts"
             /\ bandit' = [bandit EXCEPT
                             !.counts[product_to_arm(bandit, Head(loop.todo))] =
                                Len(GroupByArm(bandit, loop.interactions)[Head(loop.todo)])]
             /\ loop' = [Moved(h, "assign_rewards") EXCEPT !.todo = Tail(loop.todo)]
          \/ /\ point = "total_pulls"
             /\ bandit' = [bandit EXCEPT !.total_pulls = SumSeq(bandit.counts)]
             /\ loop' = Moved(h, "done")
       /\ UNCHANGED <<bandits, cold_start_recommender, default_bandit_type,
                      total_recommendations_served, user,
                      recommendation_system, last>>

\* update_bandit_reward: record_interaction(context, product_id, reward),
\* i.e. update, statement by statement
UpdateBanditReward ==
    LET h == "update_bandit_reward"
        point == loop.pc[h]
    IN /\ Scheduled(h)
       /\ \/ /\ point = "start"
             /\ loop' = Moved(h, IF InProductToArm(bandit, loop.product_id)
                                 THEN "add_count" ELSE "done")
             /\ UNCHANGED bandit
          \/ /\ point = "add_count"
             /\ bandit' = [bandit EXCEPT
                             !.counts[product_to_arm(bandit, loop.product_id)] = @ + 1]
             /\ loop' = Moved(h, "add_reward")
          \/ /\ point = "add_reward"
             /\ bandit' = [bandit EXCEPT
                             !.rewards[product_to_arm(bandit, loop.product_id)] =
                                @ + loop.reward]
             /\ loop' = Moved(h, "add_pull")
          \/ /\ point = "add_pull"
             /\ bandit' = [bandit EXCEPT !.total_pulls = @ + 1]
             /\ loop' = Moved(h, "done")
       /\ UNCHANGED <<bandits, cold_start_recommender, default_bandit_type,
                      total_recommendations_served, user,
                      recommendation_system, last>>

\* get_bandit_stats: the reader; what it finds is kept in loop.seen
ReadBanditStats ==
    LET h == "get_bandit_stats"
    IN /\ Scheduled(h)
       /\ loop' = [Moved(h, "done") EXCEPT !.seen = <<Statistics(bandit)>>]
       /\ UNCHANGED <<bandit, bandits, cold_start_recommender, default_bandit_type,
                      total_recommendations_served, user,
                      recommendation_system, last>>

NextConcurrent ==
    \/ RefreshBandits
    \/ UpdateBanditReward
    \/ ReadBanditStats

SpecConcurrent == InitConcurrent /\ [][NextConcurrent]_vars

(* Construction: the constructors of the bandits and the initialization   *)
(* of a manager that serves requests                                       *)
NextConstruct ==
    \/ Construct
    \/ InitializeSystem
    \/ GetRecommendations

SpecConstruct == InitManage /\ [][NextConstruct]_vars

(* The counter of a manager under all of its calls *)
NextServed ==
    \/ InitializeSystem
    \/ GetRecommendations
    \/ UpdateBanditData
    \/ ResetBandit
    \/ ResetAllBandits
    \/ GetBanditStats

SpecServed == InitManage /\ [][NextServed]_vars

(* The resets of a bandit and of the bandits of a manager *)
NextReset ==
    \/ UpdateRewardsShort
    \/ Reset
    \/ InitializeSystem
    \/ UpdateBanditData
    \/ ResetBandit
    \/ ResetAllBandits

SpecReset == Init /\ [][NextReset]_vars

(* The cold-start recommender on its own *)
NextColdStart ==
    \/ ConstructRecommender
    \/ GetColdStartRecommendations
    \/ GetTrendingProducts

SpecColdStart == InitManage /\ [][NextColdStart]_vars

(* The simplified service of main2.py *)
InitSimplified ==
    /\ bandit = NewBandit("ucb", <<"A">>, DefaultEpsilonPct, DefaultConfidenceLevel)
    /\ bandits = << >>
    /\ cold_start_recommender = NoRecommender
    /\ default_bandit_type = "ucb"
    /\ total_recommendations_served = 0
    /\ user = [interactions_count |-> 0, exclude_products |-> {}]
    /\ loop = NoLoop
    /\ recommendation_system = NewSystem(<<"A", "B">>)
    /\ last = NoCall

NextSimplified ==
    \/ CreateInteractionFromDict
    \/ RecordUserFeedback
    \/ SyncUserData

SpecSimplified == InitSimplified /\ [][NextSimplified]_vars

(* The statistics list of one bandit *)
NextStats ==
    \/ Update
    \/ UpdateRewardsShort
    \/ Reset
    \/ GetProductStats
    \/ TestGetProductStats

SpecStats == Init /\ [][NextStats]_vars

----------------------------------------------------------------------------
(* Claims about one bandit *)

\* the number of interactions of a list that name a product
CountFor(interactions, pid) ==
    Cardinality({k \in 1..Len(interactions) : interactions[k].productId = pid})

\* the sum of the rewards of the interactions of a list that name a product
RECURSIVE RewardFor(_, _)
RewardFor(interactions, pid) ==
    IF interactions = <<>> THEN 0
    ELSE (IF Head(interactions).productId = pid THEN Head(interactions).reward ELSE 0)
         + RewardFor(Tail(interactions), pid)

\* the number of arms whose product is not excluded
NotExcludedArms(b, exclude) ==
    Cardinality({i \in 1..n_arms(b) : b.product_ids[i] \notin exclude})

\* C1: in every state reached by update, update_rewards and reset calls,
\* also ones naming products that are no arm, total_pulls is the sum of the
\* counts of all arms.
C1_TotalPullsIsSumOfCounts ==
    bandit.total_pulls = SumSeq(bandit.counts)

\* an update naming a product that is no arm has been made on a bandit
\* that holds pulls
C1_Witness ==
    /\ last.op = "update"
    /\ last.product_id \notin Range(bandit.product_ids)
    /\ bandit.total_pulls > 0

C3_SelectProductsReturnsMinNK ==
    (last.op = "select_products" /\ ~last.raised) =>
        Len(last.ids) = Min(last.n_products,
                            NotExcludedArms(bandit, last.exclude_products))

\* C10: after update_rewards(X) each arm's count is the number of
\* interactions of X naming it and its reward the sum of their rewards
\* (zero for an arm X does not name), whatever the statistics were before;
\* interactions naming a product that is no arm count nowhere.
C10_UpdateRewardsRecomputes ==
    last.op = "update_rewards" =>
        /\ \A i \in 1..n_arms(bandit) :
              /\ bandit.counts[i] = CountFor(last.interactions, bandit.product_ids[i])
              /\ bandit.rewards[i] = RewardFor(last.interactions, bandit.product_ids[i])
        /\ bandit.total_pulls =
              Cardinality({k \in 1..Len(last.interactions) :
                              last.interactions[k].productId \in Range(bandit.product_ids)})

\* update_rewards was given a list naming one arm and one product that is
\* no arm
C10_Witness ==
    /\ last.op = "update_rewards"
    /\ \E k \in 1..Len(last.interactions) :
          last.interactions[k].productId \notin Range(bandit.product_ids)
    /\ \E i \in 1..n_arms(bandit) : bandit.counts[i] = 1 /\ bandit.rewards[i] = -1
    /\ \E i \in 1..n_arms(bandit) : bandit.counts[i] = 0

----------------------------------------------------------------------------
(* Claims about get_recommendations *)

\* the last call was get_recommendations on a manager holding a cold-start
\* recommender
RecommendedByInitialized ==
    last.op = "get_recommendations" /\ cold_start_recommender.exists

\* the catalog products the last call did not exclude
NonExcludedCatalog ==
    Range(cold_start_recommender.products) \ last.exclude_products

\* the last call took the cold-start branch of the routing
OnColdStartPath ==
    \/ last.strategy = "cold_start"
    \/ (last.strategy = "adaptive" /\ last.user_interactions_count = 0)

\* the last call took the bandit branch of the routing
OnBanditPath ==
    \/ last.strategy = "bandit"
    \/ (last.strategy = "adaptive" /\ last.user_interactions_count > 0)

NoDuplicates(ids) == \A i, j \in 1..Len(ids) : ids[i] = ids[j] => i = j

SomeBanditHoldsPulls == \E c \in DOMAIN bandits : bandits[c].total_pulls > 0

\* C4: an initialized manager, asked with any strategy, context and
\* interaction count, returns a non-empty list whenever some catalog
\* product is not excluded.
C4_NonEmptyWhileProductAvailable ==
    (RecommendedByInitialized /\ NonExcludedCatalog # {}) => last.ids # <<>>

\* a trending request found no trending product and was served by the last
\* resort
C4_Witness ==
    /\ RecommendedByInitialized
    /\ last.strategy = "trending"
    /\ last.source = "cold_start_last_resort"
    /\ last.exclude_products # {}
    /\ last.ids # <<>>

\* C5 (as claimed): get_recommendations does not raise, and on a manager
\* without cold-start recommender every call returns an empty list whose
\* recommendation_source is 'error'.
C5_UninitializedReturnsErrorSource ==
    (last.op = "get_recommendations" /\ ~cold_start_recommender.exists) =>
        /\ ~last.raised
        /\ last.ids = <<>>
        /\ last.source = "error"

\* C6: an initialized manager asked with strategy 'cold_start', or
\* 'adaptive' and interaction count 0, answers with source 'cold_start' and
\* is_new_user = (count = 0), and its list holds no product twice and
\* exactly the catalog products that are not excluded, whatever the context
\* and the bandits' statistics.
C6_ColdStartPathServesCatalog ==
    (RecommendedByInitialized /\ OnColdStartPath) =>
        /\ last.source = "cold_start"
        /\ last.is_new_user = (last.user_interactions_count = 0)
        /\ NoDuplicates(last.ids)
        /\ Range(last.ids) = NonExcludedCatalog

\* an adaptive request of a new user that excludes a catalog product, made
\* to a manager whose bandit for the context holds pulls
C6_Witness ==
    /\ RecommendedByInitialized
    /\ last.strategy = "adaptive" /\ last.user_interactions_count = 0
    /\ last.context \in DOMAIN bandits
    /\ bandits[last.context].total_pulls > 0
    /\ last.exclude_products \cap Range(cold_start_recommender.products) # {}
    /\ last.ids # <<>>

\* C7 (as claimed): on the bandit path, a context other than 'global' that
\* names a bandit with an arm that is not excluded is served by that
\* bandit: the source is 'bandit' and every returned product is one of its
\* arms, for both bandit types.
C7_NamedContextServedByItsBandit ==
    (/\ RecommendedByInitialized /\ OnBanditPath
     /\ last.context # "global" /\ last.context \in DOMAIN bandits
     /\ NotExcludedArms(bandits[last.context], last.exclude_products) > 0) =>
        /\ last.source = "bandit"
        /\ Range(last.ids) \subseteq Range(bandits[last.context].product_ids)

\* C8: on the bandit path of an initialized manager, a context that is
\* neither 'global' nor a bandit's name is served by the cold-start
\* recommender: the call leaves every bandit as it was, its source is the
\* cold-start fallback tag, and its list is the non-excluded catalog.
C8_UnknownContextFallsBack ==
    [][(/\ total_recommendations_served' # total_recommendations_served
        /\ cold_start_recommender.exists
        /\ last'.strategy = "bandit"
           \/ (last'.strategy = "adaptive" /\ last'.user_interactions_count > 0)
        /\ last'.context \notin (DOMAIN bandits) \cup {"global"}) =>
           /\ bandits' = bandits
           /\ last'.source = "cold_start_fallback"
           /\ NoDuplicates(last'.ids)
           /\ Range(last'.ids)
                 = Range(cold_start_recommender.products) \ last'.exclude_products]_vars

\* a request on the bandit path named a context without bandit, while
\* another bandit holds pulls, and excluded a catalog product
C8_Witness ==
    /\ RecommendedByInitialized /\ OnBanditPath
    /\ last.context \notin (DOMAIN bandits) \cup {"global"}
    /\ SomeBanditHoldsPulls
    /\ last.source = "cold_start_fallback"
    /\ last.exclude_products \cap Range(cold_start_recommender.products) # {}
    /\ last.ids # <<>>

----------------------------------------------------------------------------
(* Claims about the updates of one bandit *)

\* C11: update_rewards(X) made again right after update_rewards(X) leaves
\* counts, rewards and total_pulls as the first call left them, whatever
\* the statistics were before the first call.
C11_UpdateRewardsIdempotent ==
    last.op = "update_rewards" =>
        LET again == update_rewards(bandit, last.interactions)
        IN /\ again.counts = bandit.counts
           /\ again.rewards = bandit.rewards
           /\ again.total_pulls = bandit.total_pulls

\* update_rewards was given two interactions, one of them naming an arm
C11_Witness ==
    /\ last.op = "update_rewards"
    /\ Len(last.interactions) = 2
    /\ bandit.total_pulls >= 1

\* C12: a step update(product_id, reward) adds 1 to the count and reward to
\* the cumulative reward of the arm of product_id and 1 to total_pulls and
\* leaves the other arms as they were; for a product that is no arm it
\* leaves counts, rewards and total_pulls as they were.
C12_UpdateFrame ==
    [][last'.op = "update" =>
         LET hit == last'.product_id \in Range(bandit.product_ids)
         IN /\ bandit'.product_ids = bandit.product_ids
            /\ \A i \in 1..n_arms(bandit) :
                  IF bandit.product_ids[i] = last'.product_id
                  THEN /\ bandit'.counts[i] = bandit.counts[i] + 1
                       /\ bandit'.rewards[i] = bandit.rewards[i] + last'.reward
                  ELSE /\ bandit'.counts[i] = bandit.counts[i]
                       /\ bandit'.rewards[i] = bandit.rewards[i]
            /\ bandit'.total_pulls = bandit.total_pulls + (IF hit THEN 1 ELSE 0)
            /\ ~last'.raised]_vars

\* an update with a negative reward was made on an arm of a bandit another
\* arm of which holds a pull
C12_Witness ==
    /\ last.op = "update" /\ last.reward = -1
    /\ \E i, j \in 1..n_arms(bandit) :
          /\ i # j
          /\ bandit.product_ids[i] = last.product_id
          /\ bandit.counts[i] = 1 /\ bandit.rewards[i] = -1
          /\ bandit.counts[j] = 1

\* C13 (as claimed): over update and update_rewards steps no arm's count
\* decreases, and an arm's count and cumulative reward change only together.
C13_CountsNeverDecrease ==
    [][last'.op \in {"update", "update_rewards"} =>
         \A i \in 1..n_arms(bandit) :
            /\ bandit'.counts[i] >= bandit.counts[i]
            /\ (bandit'.rewards[i] # bandit.rewards[i])
                  => (bandit'.counts[i] # bandit.counts[i])]_vars

\* C13 (amended): over update steps no arm's count decreases, and an arm's
\* cumulative reward changes only in a step that raises its count.
C13_CountsNeverDecreaseUnderUpdate ==
    [][last'.op = "update" =>
         \A i \in 1..n_arms(bandit) :
            /\ bandit'.counts[i] >= bandit.counts[i]
            /\ (bandit'.rewards[i] # bandit.rewards[i])
                  => (bandit'.counts[i] = bandit.counts[i] + 1)]_vars

\* an update raised the count of an arm to 2
C13_Witness ==
    /\ last.op = "update"
    /\ \E i \in 1..n_arms(bandit) :
          bandit.product_ids[i] = last.product_id /\ bandit.counts[i] = 2

----------------------------------------------------------------------------
(* Claims about the bandits of a manager *)

\* the count a bandit holds for a product, 0 when the product is no arm
CountOf(b, pid) ==
    IF pid \in Range(b.product_ids)
    THEN b.counts[CHOOSE i \in 1..n_arms(b) : b.product_ids[i] = pid]
    ELSE 0

\* C14: a step record_interaction(ctx, p, r), update_bandit_data(ctx, X) or
\* reset_bandit(ctx) leaves the set of contexts and the bandit of every
\* context other than ctx as they were, also when p is an arm of several
\* bandits.
C14_StatisticsPerContext ==
    [][last'.op \in {"record_interaction", "update_bandit_data", "reset_bandit"} =>
         /\ DOMAIN bandits' = DOMAIN bandits
         /\ \A c \in DOMAIN bandits :
               c # last'.context => bandits'[c] = bandits[c]]_vars

\* an interaction was recorded for a product that is an arm of the bandits
\* of two contexts, which now hold different counts for it
C14_Witness ==
    /\ last.op = "record_interaction" /\ last.returned
    /\ \E c \in DOMAIN bandits :
          /\ c # last.context
          /\ last.product_id \in Range(bandits[c].product_ids)
          /\ last.product_id \in Range(bandits[last.context].product_ids)
          /\ CountOf(bandits[c], last.product_id) = 1
          /\ CountOf(bandits[last.context], last.product_id) = 2

\* C15 (as claimed): after initialize_system(P2, C2) the contexts of the
\* manager are exactly C2 ({'global'} when C2 is not given), every bandit
\* has the arm set P2 and all-zero statistics, and the cold-start
\* recommender covers exactly P2.
C15_ReinitializationReplaces ==
    (last.op = "initialize_system" /\ ~last.raised) =>
        /\ DOMAIN bandits = (IF last.contexts = <<>> THEN {"global"}
                             ELSE Range(last.contexts))
        /\ \A c \in DOMAIN bandits :
              /\ Range(bandits[c].product_ids) = Range(last.all_products)
              /\ bandits[c].total_pulls = 0
              /\ \A i \in 1..n_arms(bandits[c]) :
                    bandits[c].counts[i] = 0 /\ bandits[c].rewards[i] = 0
        /\ Range(cold_start_recommender.products) = Range(last.all_products)

\* C19 (as claimed): in the list get_product_stats returns every arm
\* without pulls stands before every arm with pulls.
C19_UnexploredArmsFirst ==
    last.op \in {"get_product_stats", "test_get_product_stats"} =>
        \A i, j \in 1..Len(last.ids) :
            (CountOf(bandit, last.ids[i]) > 0 /\ CountOf(bandit, last.ids[j]) = 0)
               => j < i

\* C20: a step update_bandit_data, record_interaction, reset_bandit or
\* get_bandit_stats that names a context without bandit returns the
\* sentinel (False, None), does not raise, and leaves the bandits, the
\* cold-start recommender and the served counter as they were.
C20_UnknownContextSentinel ==
    [][(/\ last'.op \in {"update_bandit_data", "record_interaction", "reset_bandit",
                         "get_bandit_stats"}
        /\ last'.context \notin DOMAIN bandits) =>
           /\ ~last'.returned
           /\ ~last'.raised
           /\ last'.ids = <<>>
           /\ bandits' = bandits
           /\ cold_start_recommender' = cold_start_recommender
           /\ total_recommendations_served' = total_recommendations_served]_vars

\* reset_bandit named a context without bandit on a manager whose other
\* bandit holds pulls
C20_Witness ==
    /\ last.op = "reset_bandit"
    /\ last.context \notin DOMAIN bandits
    /\ ~last.returned
    /\ SomeBanditHoldsPulls

----------------------------------------------------------------------------
(* Claims about select_arm *)

\* C17 (as claimed): select_arm of a UCB bandit returns an arm whose count
\* is 0 whenever the bandit it is called on has such an arm, whatever the
\* statistics of the other arms.
C17_UcbPicksUnpulledArm ==
    (/\ last.op \in {"select_arm", "select_arm_temp", "test_select_arm"}
     /\ bandit.type = "ucb"
     /\ \E i \in 1..Len(last.counts) : last.counts[i] = 0) =>
        /\ ~last.raised
        /\ last.arm \in 1..Len(last.counts)
        /\ last.counts[last.arm] = 0

\* C18: select_arm of an epsilon-greedy bandit with epsilon 0, every arm of
\* which holds a pull, returns an arm of maximal average reward; with
\* epsilon 1 every arm is a possible result and no other outcome is,
\* whatever the statistics.
C18_EpsilonZeroExploitsOneExplores ==
    /\ (/\ last.op = "select_arm" /\ bandit.type = "epsilon_greedy"
        /\ bandit.epsilon = 0
        /\ \A i \in 1..n_arms(bandit) : bandit.counts[i] >= 1) =>
           /\ ~last.raised
           /\ last.arm \in 1..n_arms(bandit)
           /\ \A j \in 1..n_arms(bandit) :
                 bandit.rewards[last.arm] * bandit.counts[j]
                    >= bandit.rewards[j] * bandit.counts[last.arm]
    /\ (bandit.type = "epsilon_greedy" /\ bandit.epsilon = 100) =>
           {o.arm : o \in {x \in select_arm(bandit) : ~x.raised}} = 1..n_arms(bandit)
           /\ \A o \in select_arm(bandit) : ~o.raised

\* select_arm with epsilon 0 returned the second arm, whose average reward
\* is above that of the first
C18_Witness ==
    /\ last.op = "select_arm" /\ bandit.type = "epsilon_greedy"
    /\ bandit.epsilon = 0
    /\ \A i \in 1..n_arms(bandit) : bandit.counts[i] >= 1
    /\ last.arm = 2
    /\ bandit.rewards[1] < bandit.rewards[2]

----------------------------------------------------------------------------
(* Claims about concurrent requests *)

\* the bandit the requests started from
InitialBandit ==
    [bandit EXCEPT !.counts = loop.initial.counts,
                   !.rewards = loop.initial.rewards,
                   !.total_pulls = loop.initial.total_pulls]

\* the statistics after update_rewards and update as whole operations, in
\* the two serial orders
RecomputeThenUpdate ==
    Statistics(update(update_rewards(InitialBandit, loop.interactions),
                      loop.product_id, loop.reward))

UpdateThenRecompute ==
    Statistics(update_rewards(update(InitialBandit, loop.product_id, loop.reward),
                              loop.interactions))

\* the statistics before and after whole operations
WholeOperationStates ==
    {loop.initial,
     Statistics(update_rewards(InitialBandit, loop.interactions)),
     Statistics(update(InitialBandit, loop.product_id, loop.reward)),
     RecomputeThenUpdate,
     UpdateThenRecompute}

AllDone == \A h \in Handlers : loop.pc[h] = "done"

\* C16: with a refresh (update_rewards) and an update of the same bandit
\* in flight, a reader finds the statistics as they are before or after
\* whole operations, with total_pulls the sum of the counts, and when both
\* have returned the statistics are those of one of the two serial orders.
C16_MutationsAppearAtomic ==
    /\ \A k \in 1..Len(loop.seen) :
          /\ loop.seen[k] \in WholeOperationStates
          /\ loop.seen[k].total_pulls = SumSeq(loop.seen[k].counts)
    /\ (loop.pc # << >> /\ AllDone) =>
          Statistics(bandit) \in {RecomputeThenUpdate, UpdateThenRecompute}

\* the refresh awaited, the update ran meanwhile, the reader read between
\* the two, and the two serial orders differ
C16_Witness ==
    /\ loop.pc # << >> /\ AllDone
    /\ RecomputeThenUpdate # UpdateThenRecompute
    /\ Statistics(bandit) = UpdateThenRecompute
    /\ loop.seen = <<Statistics(update(InitialBandit, loop.product_id, loop.reward))>>
    /\ loop.initial.total_pulls > 0

----------------------------------------------------------------------------
(* Claims about construction *)

\* the arguments of the last constructor call are invalid
InvalidConstruction(call) ==
    \/ call.all_products = <<>>
    \/ call.bandit_type = "epsilon_greedy" /\ ~(0 <= call.epsilon /\ call.epsilon <= 100)
    \/ call.bandit_type = "ucb" /\ call.confidence_level <= 0

\* C21: a constructor called with an empty product list, an epsilon
\* outside [0,1] (epsilon-greedy) or a confidence_level <= 0 (UCB) raises
\* and yields no bandit; initialize_system with an empty product list
\* raises and leaves the bandits map, the cold-start recommender and the
\* counter as they were.
C21_ConstructionFailsFast ==
    [][/\ (last'.op = "construct" /\ InvalidConstruction(last')) =>
             (last'.raised /\ bandit' = bandit)
       /\ (last'.op = "initialize_system" /\ last'.all_products = <<>>) =>
             /\ last'.raised
             /\ UNCHANGED <<bandits, cold_start_recommender,
                            total_recommendations_served>>]_vars

\* initialize_system([]) raised on a manager that holds bandits and has
\* served a request
C21_Witness ==
    /\ last.op = "initialize_system" /\ last.all_products = <<>> /\ last.raised
    /\ DOMAIN bandits # {}
    /\ cold_start_recommender.exists
    /\ total_recommendations_served > 0

----------------------------------------------------------------------------
(* Claims about the counter and the resets of a manager *)

\* C22: total_recommendations_served is 0 at construction; every
\* get_recommendations call, whatever its source (fallback and error path
\* included), adds exactly one; reset_all_bandits sets it to 0; no other
\* call changes it. Hence it counts the calls since construction or the
\* last reset_all_bandits.
C22_CounterCountsRequests ==
    /\ total_recommendations_served = 0
    /\ [][/\ last'.op = "get_recommendations" =>
               total_recommendations_served' = total_recommendations_served + 1
          /\ last'.op = "reset_all_bandits" => total_recommendations_served' = 0
          /\ last'.op \notin {"get_recommendations", "reset_all_bandits"} =>
               total_recommendations_served' = total_recommendations_served]_vars

\* a request that ended in the except branch was counted
C22_Witness ==
    /\ last.op = "get_recommendations"
    /\ last.source = "error_cold_start_fallback"
    /\ total_recommendations_served = 1

\* bandit after is bandit before with its statistics at zero: the same
\* arms in the same order and the same policy parameters
IsReset(before, after) ==
    /\ after.product_ids = before.product_ids
    /\ after.type = before.type
    /\ after.epsilon = before.epsilon
    /\ after.confidence_level = before.confidence_level
    /\ \A i \in 1..n_arms(after) : after.counts[i] = 0 /\ after.rewards[i] = 0
    /\ after.total_pulls = 0

\* C23: reset() leaves a bandit with every count, every cumulative reward
\* and total_pulls at 0 and with its arms as they were; reset_bandit does
\* so for the named context's bandit and reset_all_bandits for the bandit
\* of every context.
C23_ResetZeroesStatistics ==
    [][/\ last'.op = "reset" => IsReset(bandit, bandit')
       /\ (last'.op = "reset_bandit" /\ last'.context \in DOMAIN bandits) =>
             /\ last'.returned
             /\ DOMAIN bandits' = DOMAIN bandits
             /\ IsReset(bandits[last'.context], bandits'[last'.context])
       /\ last'.op = "reset_all_bandits" =>
             /\ DOMAIN bandits' = DOMAIN bandits
             /\ \A c \in DOMAIN bandits : IsReset(bandits[c], bandits'[c])]_vars

\* reset_all_bandits ran on a manager with two contexts after a reset of
\* the stand-alone bandit; every bandit is at zero
C23_Witness ==
    /\ last.op = "reset_all_bandits"
    /\ DOMAIN bandits = {"global", "shoes"}
    /\ \A c \in DOMAIN bandits : bandits[c].total_pulls = 0 /\ n_arms(bandits[c]) = 2
    /\ bandit.total_pulls = 0

----------------------------------------------------------------------------
(* Claims about the cold-start recommender *)

\* the filters of the last call leave no product that is not excluded: no
\* such product has the category, a price in the range and, if it carries
\* features, the market position asked for
NoProductMatches ==
    \A pid \in Range(cold_start_recommender.products) \ last.exclude_products :
        \/ last.category_filter # "" /\ Lower(Category(pid)) # Lower(last.category_filter)
        \/ /\ last.price_range # <<>>
           /\ (Price(pid) < last.price_range[1] \/ Price(pid) > last.price_range[2])
        \/ /\ last.market_position # "" /\ HasFeatures(pid)
           /\ Lower(Features(pid).market_position) # Lower(last.market_position)

\* C24: get_cold_start_recommendations whose filters match no product
\* that is not excluded returns every catalog product that is not
\* excluded, once each, as the call without filters does; its result is
\* empty only when every product is excluded.
C24_EmptyFilterFallsBack ==
    last.op = "get_cold_start_recommendations" =>
        /\ NoProductMatches =>
              /\ Range(last.ids) = Range(cold_start_recommender.products)
                                      \ last.exclude_products
              /\ NoDuplicates(last.ids)
              /\ last.ids \in get_cold_start_recommendations(cold_start_recommender,
                                                             last.exclude_products)
        /\ last.ids = <<>> =>
              Range(cold_start_recommender.products) \subseteq last.exclude_products

\* a category no product carries was asked for, with one of three products
\* excluded: the two others came back
C24_Witness ==
    /\ last.op = "get_cold_start_recommendations"
    /\ last.category_filter = "toys"
    /\ last.exclude_products = {"B"}
    /\ Range(cold_start_recommender.products) = {"A", "B", "C"}
    /\ Len(last.ids) = 2

\* product pid trends strongly for the last call: its momentum is at least
\* min_trend_momentum and its lifecycle stage is New or Growing
TrendsStrongly(pid) ==
    /\ HasFeatures(pid)
    /\ Features(pid).trend_momentum >= last.min_trend_momentum
    /\ Features(pid).lifecycle_stage \in {"New", "Growing"}

\* C25: get_trending_products returns at most n_products products, none of
\* them excluded; if a product that is not excluded trends strongly, every
\* returned product does; otherwise every returned product has a trend
\* momentum above 0.
C25_TrendingCandidates ==
    last.op = "get_trending_products" =>
        /\ Len(last.ids) <= last.n_products
        /\ Range(last.ids) \cap last.exclude_products = {}
        /\ Range(last.ids) \subseteq Range(cold_start_recommender.products)
        /\ IF \E pid \in Range(cold_start_recommender.products) \ last.exclude_products :
                 TrendsStrongly(pid)
           THEN \A pid \in Range(last.ids) : TrendsStrongly(pid)
           ELSE \A pid \in Range(last.ids) :
                   HasFeatures(pid) /\ Features(pid).trend_momentum > 0

\* no product trends strongly at the default threshold: the two products
\* of positive momentum came back, the one of negative momentum did not
C25_Witness ==
    /\ last.op = "get_trending_products"
    /\ last.min_trend_momentum = DefaultMinTrendMomentum
    /\ Range(cold_start_recommender.products) = {"B", "D", "E"}
    /\ last.exclude_products = {}
    /\ Range(last.ids) = {"B", "D"}

\* C26: every score in the cache of a cold-start recommender lies in
\* [0, 1] (0..10000 in the model's unit), whatever the feature values of
\* the catalog, and the score of a product without features is 0.5.
C26_ScoreWithinUnitInterval ==
    cold_start_recommender.exists =>
        /\ DOMAIN cold_start_recommender.feature_cache
              = Range(cold_start_recommender.products)
        /\ \A pid \in DOMAIN cold_start_recommender.feature_cache :
              /\ cold_start_recommender.feature_cache[pid] >= 0
              /\ cold_start_recommender.feature_cache[pid] <= 10000
              /\ ~HasFeatures(pid) => cold_start_recommender.feature_cache[pid] = 5000

\* a catalog of one product without reviews, whose rating range is empty
\* and whose momentum and price competitiveness lie below their ranges:
\* its score is cut off at 0
C26_Witness ==
    /\ last.op = "construct_recommender"
    /\ cold_start_recommender.products = <<"E">>
    /\ cold_start_recommender.feature_cache["E"] = 0

----------------------------------------------------------------------------
(* Claims about the reward of an interaction and the simplified service *)

\* C27 (as claimed): the reward applied for an interaction is the explicit
\* reward when the record carries one and otherwise the reward of its
\* action type in the lookup table, 0 for an action type the table does
\* not hold, and no error is raised. Fails in create_interaction_from_dict,
\* which knows no table.
C27_ExplicitRewardElseLookup ==
    (\/ last.op = "create_interaction_from_dict"
     \/ last.op = "record_user_feedback"
          /\ last.product_id \in Range(recommendation_system.products)) =>
        /\ ~last.raised
        /\ last.reward_key = "number" => last.applied = last.reward
        /\ last.reward_key # "number" => last.applied = reward_mapping(last.action)

\* C30 (as claimed): a step sync_user_data(user_id) leaves the preferences
\* and the interaction count of every other user, and so whether they are
\* a new user, as they were. Fails: update_from_interactions empties both
\* dicts before it reads the list.
C30_SyncLeavesOtherUsers ==
    [][last'.op = "sync_user_data" =>
          \A u \in Users \ {last'.user_id} :
             /\ Get(recommendation_system'.user_preferences, u, << >>)
                   = Get(recommendation_system.user_preferences, u, << >>)
             /\ Get(recommendation_system'.user_interaction_counts, u, 0)
                   = Get(recommendation_system.user_interaction_counts, u, 0)
             /\ IsNewUser(recommendation_system', u)
                   = IsNewUser(recommendation_system, u)]_vars

\* the product at position i of ids comes from an arm whose average reward
\* is at least that of an arm of the product at position j
AverageNotBelow(b, ids, i, j) ==
    \E x, y \in 1..n_arms(b) :
        /\ b.product_ids[x] = ids[i]
        /\ b.product_ids[y] = ids[j]
        /\ AvgGeq(b, x, y)

\* the product pid belongs to an arm of b with count 0
UnpulledProduct(b, pid) ==
    \E x \in 1..n_arms(b) : b.product_ids[x] = pid /\ b.counts[x] = 0

\* C28 (as claimed): select_products asks the bandit's own policy with the
\* bandit's own parameters: an epsilon-greedy bandit built with epsilon = 0
\* whose arms all have count >= 1 returns the non-excluded arms in
\* non-increasing order of average reward, and a UCB bandit lists every
\* non-excluded arm with count 0 before any arm with count > 0. Fails: each
\* round runs on a temporary bandit built with the class's default
\* parameters and list-valued counts.
C28_SelectProductsUsesOwnPolicy ==
    last.op = "select_products" =>
        /\ (/\ bandit.type = "epsilon_greedy"
            /\ bandit.epsilon = 0
            /\ \A x \in 1..n_arms(bandit) : bandit.counts[x] >= 1) =>
               /\ ~last.raised
               /\ Len(last.ids) = NotExcludedArms(bandit, last.exclude_products)
               /\ \A i, j \in 1..Len(last.ids) :
                     i < j => AverageNotBelow(bandit, last.ids, i, j)
        /\ (bandit.type = "ucb" /\ ~last.raised) =>
               \A i, j \in 1..Len(last.ids) :
                  (i < j /\ UnpulledProduct(bandit, last.ids[j]))
                     => UnpulledProduct(bandit, last.ids[i])

\* C29: a step get_recommendations or select_products leaves the
\* stand-alone bandit and every bandit of the manager (counts, rewards,
\* total_pulls, arms, epsilon, confidence_level) as they were, for every
\* strategy, context and exclusion list and whether or not a selection
\* raised; get_recommendations changes total_recommendations_served, by
\* one, and no other manager state.
C29_SelectionIsReadOnly ==
    [][/\ last'.op \in {"get_recommendations", "select_products"} =>
             /\ bandit' = bandit
             /\ bandits' = bandits
             /\ cold_start_recommender' = cold_start_recommender
             /\ default_bandit_type' = default_bandit_type
       /\ last'.op = "get_recommendations" =>
             total_recommendations_served' = total_recommendations_served + 1
       /\ last'.op = "select_products" =>
             total_recommendations_served' = total_recommendations_served]_vars

\* a known user who excludes a product has been served a global merge
\* under the adaptive strategy by bandits that hold pulls
C29_Witness ==
    /\ last.op = "get_recommendations"
    /\ last.strategy = "adaptive"
    /\ last.source = "global_bandit"
    /\ last.exclude_products # {}
    /\ last.ids # <<>>
    /\ SomeBanditHoldsPulls
    /\ total_recommendations_served = 1

====
